---- MODULE Spec2Model ----
(***************************************************************************)
(* A model of the porffor code generator (src/unnamed/part_000): the      *)
(* scope model (allocVar, localTmp, inline-asm locals), the page           *)
(* allocator, the object hack, the truthy/falsy predicates and the         *)
(* function lowering state machine with its module-level registers.        *)
(***************************************************************************)
EXTENDS Integers, Sequences, FiniteSets, TLC

VARIABLES
    locals,      \* scope.locals of the scope under construction: name -> [idx, type]
    localInd,    \* scope.localInd
    globals,     \* module-level globals: name -> [idx, type]
    globalInd,   \* module-level globalInd
    created,     \* names whose binding allocVar created (and nothing has rebound since)
    pages,       \* module-level pages Map: reason -> [ind, type]
    hasArray,    \* pages.hasArray
    hasString,   \* pages.hasString
    arrays,      \* module-level arrays Map: name -> byte pointer
    data,        \* module-level data list of [offset, bytes]
    hackIn,      \* the AST handed to objectHack
    ast,         \* the tree objectHack returned last (the input before any run)
    hackRuns,    \* how many times objectHack has been applied
    tIn,         \* truthy/falsy under test: valtype, type tag, flags, payload, memory
    tOut,        \* what the code emitted by truthy leaves on the stack
    fOut,        \* what the code emitted by falsy leaves on the stack
    funcs,       \* the function table
    funcIndex,   \* function name -> index
    currentFuncIndex,
    tags,        \* exception tags
    exceptions,  \* thrown constructor/message pairs
    depth,       \* the stack of enclosing constructs
    programIn,   \* the program handed to the default export
    phase,       \* "idle", "reset" (registers just reset), "done" or "aborted"
    prevRun,     \* the record of the previous compilation when it was of the same program
    left,        \* what the last reset found: after an abort? which registers were dirty?
    machine      \* the run of emitted code or of a built-in: its input, position and values

vars == <<locals, localInd, globals, globalInd, created, pages, hasArray, hasString,
          arrays, data, hackIn, ast, hackRuns, tIn, tOut, fOut,
          funcs, funcIndex, currentFuncIndex, tags, exceptions, depth, programIn, phase, prevRun, left,
          machine>>
hackVars == <<hackIn, ast, hackRuns>>
truthyVars == <<tIn, tOut, fOut>>
genVars == <<funcs, funcIndex, currentFuncIndex, tags, exceptions, depth, programIn, phase, prevRun, left>>

scopeVars == <<locals, localInd, globals, globalInd, created>>
execVars == <<machine>>
pageVars == <<pages, hasArray, hasString, arrays, data>>

(***************************************************************************)
(* Bounds of the model.                                                    *)
(***************************************************************************)
MaxSlots == 6        \* cap on localInd / globalInd
MaxAsmIdx == 1       \* slot indices an inline-asm local directive may name
MaxData == 2         \* cap on the number of data entries
MaxChain == 3        \* longest member chain in the ASTs handed to objectHack
MaxHackRuns == 2     \* how many times objectHack is applied to a tree
MaxStrLen == 1       \* longest string in the memory truthy/falsy code runs on
MaxPayload == 2      \* largest payload magnitude truthy/falsy code runs on
MaxStmts == 1        \* top-level statements of a program besides a function declaration
MaxEmissions == 2    \* top-level statements of a program that emits functions
MaxThrows == 3       \* throw sites of a program
MaxParams == 2       \* parameters of a function that is called
MaxArgs == 3         \* arguments of a call
MaxNest == 2         \* statements nested between a loop body and a break or continue
MaxUnits == 2        \* 16-bit units a page has room for after the length
MaxChars == 3        \* characters of a string passed to parseInt

(***************************************************************************)
(* Maps are functions on a finite set of keys; the empty map is <<>>.      *)
(***************************************************************************)
EmptyMap == <<>>
Has(m, k) == k \in DOMAIN m
Put(m, k, v) == [x \in (DOMAIN m) \cup {k} |-> IF x = k THEN v ELSE m[x]]
Del(m, k) == [x \in (DOMAIN m) \ {k} |-> m[x]]

\* the default module valtype and the i32 valtype
valtypeBinary == "f64"
I32 == "i32"

\* identifiers a program can declare; logictmp is also the name of a temporary
UserNames == {"x", "y", "logictmp"}
\* names requested by the generator through localTmp
TmpNames == {"logictmp", "#last_type", "#typeswitch_tmp"}
\* the key of the type-tag sibling of a binding
TypeKey(name) == name \o "#type"
\* names an inline-asm local directive binds
AsmNames == {"x#type", "r"}
\* the type each temporary is requested with
TmpType(name) == IF name = "logictmp" THEN valtypeBinary ELSE I32

(***************************************************************************)
(* Scope model                                                             *)
(***************************************************************************)
\* a slip in allocVar: the type-tag slot does not advance past the payload slot
AllocPairSameSlot(target, ind, name) ==
    Put(Put(target, name, [idx |-> ind, type |-> valtypeBinary]),
        TypeKey(name), [idx |-> ind, type |-> I32])

\* allocVar, lines 1806-1810: a payload slot and a type-tag slot right after it
AllocPair(target, ind, name) ==
    Put(Put(target, name, [idx |-> ind, type |-> valtypeBinary]),
        TypeKey(name), [idx |-> ind + 1, type |-> I32])

AllocVar(name, global) ==
    /\ IF global
       THEN /\ IF Has(globals, name)
               THEN UNCHANGED <<globals, globalInd, created>>
               ELSE /\ globalInd + 2 <= MaxSlots
                    /\ globals' = AllocPair(globals, globalInd, name)
                    /\ globalInd' = globalInd + 2
                    /\ created' = created \cup {<<"global", name>>}
            /\ UNCHANGED <<locals, localInd>>
       ELSE /\ IF Has(locals, name)
               THEN UNCHANGED <<locals, localInd, created>>
               ELSE /\ localInd + 2 <= MaxSlots
                    /\ locals' = AllocPair(locals, localInd, name)
                    /\ localInd' = localInd + 2
                    /\ created' = created \cup {<<"local", name>>}
            /\ UNCHANGED <<globals, globalInd>>
    /\ UNCHANGED <<pageVars, hackVars, truthyVars, execVars, genVars>>

\* localTmp: memoized single slot
LocalTmpIdx(locs, ind, name) == IF Has(locs, name) THEN locs[name].idx ELSE ind
LocalTmpLocals(locs, ind, name, type) ==
    IF Has(locs, name) THEN locs ELSE Put(locs, name, [idx |-> ind, type |-> type])
\* a localTmp that takes a slot on every request
LocalTmpIndAlways(locs, ind, name) == ind + 1
\* localTmp, lines 325-327: localInd advances only for a name not bound yet
LocalTmpInd(locs, ind, name) == IF Has(locs, name) THEN ind ELSE ind + 1

LocalTmp(name, type) ==
    /\ LocalTmpInd(locals, localInd, name) <= MaxSlots
    /\ locals' = LocalTmpLocals(locals, localInd, name, type)
    /\ localInd' = LocalTmpInd(locals, localInd, name)
    /\ UNCHANGED <<globals, globalInd, created, pageVars, hackVars, truthyVars, execVars, genVars>>

\* the base name of a key an asm directive rebinds: x for x and for x#type
Rebinds(name) == {<<"local", n>> : n \in {m \in UserNames : name \in {m, TypeKey(m)}}}

\* inline asm `local <name> <idx> <type>`: binds name to the given slot
AsmLocal(name, idx, type) ==
    /\ locals' = Put(locals, name, [idx |-> idx, type |-> type])
    /\ created' = created \ Rebinds(name)
    /\ UNCHANGED <<localInd, globals, globalInd, pageVars, hackVars, truthyVars, execVars, genVars>>

(***************************************************************************)
(* Page allocator and data emitter                                         *)
(***************************************************************************)
pageSize == 65536

\* page reasons: "array: <name>", "string: <name>", and the asm intrinsic page
ArrayReason(name) == "array: " \o name
StringReason(name) == "string: " \o name
AsmReason == "asm instrinsic"
\* names of declared arrays/strings, and the name makeArray gives an anonymous one
ArrayNames == {"a"}
Undeclared == "$undeclared"
\* outcomes of Math.random().toString().slice(2)
RandIds == {"1", "2"}
UniqueNames == ArrayNames \cup {Undeclared \o r : r \in RandIds}
Reasons == {ArrayReason(n) : n \in UniqueNames} \cup {StringReason(n) : n \in UniqueNames}
               \cup {AsmReason}
IsArrayReason(reason) == reason \in {ArrayReason(n) : n \in UniqueNames}
IsStringReason(reason) == reason \in {StringReason(n) : n \in UniqueNames}

\* allocPage: the index returned for reason
AllocPageInd(pg, reason) == IF Has(pg, reason) THEN pg[reason].ind ELSE Cardinality(DOMAIN pg)
\* allocPage: the pages map afterwards
AllocPageMap(pg, reason, type) ==
    IF Has(pg, reason) THEN pg
    ELSE Put(pg, reason, [ind |-> Cardinality(DOMAIN pg), type |-> type])
\* allocPage: the flags afterwards
AllocPageHasArray(pg, flag, reason) ==
    IF ~Has(pg, reason) /\ IsArrayReason(reason) THEN TRUE ELSE flag
AllocPageHasString(pg, flag, reason) ==
    IF ~Has(pg, reason) /\ IsStringReason(reason) THEN TRUE ELSE flag

\* allocPage called on its own (the asm `memory` directive passes no type)
AllocPage(reason, type) ==
    /\ pages' = AllocPageMap(pages, reason, type)
    /\ hasArray' = AllocPageHasArray(pages, hasArray, reason)
    /\ hasString' = AllocPageHasString(pages, hasString, reason)
    /\ UNCHANGED <<arrays, data, scopeVars, hackVars, truthyVars, execVars, genVars>>

\* freePage: pages.get(reason) throws when the reason is not present
FreePageMap(pg, reason) == Del(pg, reason)
FreePage(reason) ==
    /\ Has(pages, reason)
    /\ pages' = FreePageMap(pages, reason)
    /\ UNCHANGED <<hasArray, hasString, arrays, data, scopeVars, hackVars, truthyVars, execVars, genVars>>

\* compileBytes, kept symbolic: the item type and the value it encodes
CompileBytes(val, itemType) == <<[itemType |-> itemType, val |-> val]>>
RECURSIVE ElementBytes(_, _)
ElementBytes(elements, itemType) ==
    IF elements = <<>> THEN <<>>
    ELSE CompileBytes(Head(elements), itemType) \o ElementBytes(Tail(elements), itemType)

\* makeArray: the reason of the page it allocates on a first assignment
MakeArrayReason(name, itemType, rand) ==
    LET uniqueName == IF name = Undeclared THEN name \o rand ELSE name
    IN IF itemType = "i16" THEN StringReason(uniqueName) ELSE ArrayReason(uniqueName)
MakeArrayFirstAssign(arr, name) == ~Has(arr, name) \/ name = Undeclared

\* makeArray(scope, {rawElements}, global, name, initEmpty, itemType): its effect on
\* arrays, pages and data (the instructions it returns are not part of the state)
MakeArray(name, itemType, rawElements, initEmpty, rand) ==
    LET first == MakeArrayFirstAssign(arrays, name)
        reason == MakeArrayReason(name, itemType, rand)
        pointer == IF first THEN AllocPageInd(pages, reason) * pageSize ELSE arrays[name]
    IN /\ IF first
          THEN /\ Len(data) < MaxData
               /\ arrays' = Put(arrays, name, pointer)
               /\ pages' = AllocPageMap(pages, reason, itemType)
               /\ hasArray' = AllocPageHasArray(pages, hasArray, reason)
               /\ hasString' = AllocPageHasString(pages, hasString, reason)
               /\ data' = Append(data,
                     [offset |-> pointer,
                      bytes |-> CompileBytes(Len(rawElements), "i32")
                                \o (IF initEmpty THEN <<>> ELSE ElementBytes(rawElements, itemType))])
          ELSE UNCHANGED <<arrays, pages, hasArray, hasString, data>>
       /\ UNCHANGED <<scopeVars, hackVars, truthyVars, execVars, genVars>>

\* default export, lines 2925-2927: fresh arrays, pages (no flags) and data
ResetPages ==
    /\ arrays' = EmptyMap
    /\ pages' = EmptyMap
    /\ hasArray' = FALSE
    /\ hasString' = FALSE
    /\ data' = <<>>
    /\ UNCHANGED <<scopeVars, hackVars, truthyVars, execVars, genVars>>

(***************************************************************************)
(* Object hack                                                             *)
(***************************************************************************)
\* A name is a sequence of tokens; "_" is the single character, so '__' is two
\* tokens and name.slice(2) drops them.
Ident(name) == [type |-> "Identifier", name |-> name]
Member(object, property, computed, optional) ==
    [type |-> "MemberExpression", object |-> object, property |-> property,
     computed |-> computed, optional |-> optional]
Call(callee, arguments) ==
    [type |-> "CallExpression", callee |-> callee, arguments |-> arguments]
Literal == [type |-> "Literal", value |-> 1]
\* the outcome of objectHack when it throws (reading .slice of an undefined name)
HackTypeError == [type |-> "TypeError"]
\* node.name: undefined (the empty name) for nodes that have none
NameOf(node) == IF "name" \in DOMAIN node THEN node.name ELSE <<>>
Slice2(name) == SubSeq(name, 3, Len(name))
\* '__' + objectName + '_' + node.property.name
HackedName(objectName, propertyName) == <<"_", "_">> \o objectName \o <<"_">> \o propertyName

RECURSIVE objectHack(_)

\* a slip: the inner chain is rewritten in place and the outer member kept
HackChainOneLevel(node) ==
    LET inner == objectHack(node.object)
    IN IF inner = HackTypeError THEN HackTypeError
       ELSE Member(inner, node.property, node.computed, node.optional)

\* lines 2752-2763 when node.object has no name: the object is hacked first and
\* its flattened name (without the leading '__') is the object name
HackChain(node) ==
    LET inner == objectHack(node.object)
    IN IF inner = HackTypeError \/ "name" \notin DOMAIN inner THEN HackTypeError
       ELSE IF NameOf(node.property) = <<"length">> THEN node
       ELSE Ident(HackedName(Slice2(inner.name), NameOf(node.property)))

\* lines 2744-2764: the MemberExpression case
HackMember(node) ==
    IF node.computed \/ node.optional THEN node
    ELSE IF node.object.type \notin {"Identifier", "MemberExpression"} THEN node
    ELSE IF NameOf(node.object) = <<>> THEN HackChain(node)
    ELSE IF NameOf(node.property) = <<"length">> THEN node
    ELSE Ident(HackedName(NameOf(node.object), NameOf(node.property)))

\* line 2769: node[x].map(y => objectHack(y))
HackAll(nodes) == [i \in 1..Len(nodes) |-> objectHack(nodes[i])]
\* a throw inside the map aborts the whole call
AnyTypeError(nodes) == \E i \in 1..Len(nodes) : nodes[i] = HackTypeError

\* lines 2741-2774
objectHack(node) ==
    IF node.type = "MemberExpression" THEN HackMember(node)
    ELSE IF node.type = "CallExpression"
    THEN LET c == objectHack(node.callee)
             a == HackAll(node.arguments)
         IN IF c = HackTypeError \/ AnyTypeError(a) THEN HackTypeError ELSE Call(c, a)
    ELSE node

\* the ASTs of the model: member chains over an identifier, a literal or a call
PropertyNames == {<<"b">>, <<"length">>}
RECURSIVE Chains(_)
Chains(k) ==
    IF k = 0 THEN {Ident(<<"a">>), Literal}
    ELSE LET prev == Chains(k - 1)
         IN prev \cup {Member(o, Ident(p), f[1], f[2]) :
                          o \in prev, p \in PropertyNames,
                          f \in {<<FALSE, FALSE>>, <<TRUE, FALSE>>, <<FALSE, TRUE>>}}
Trees == Chains(MaxChain) \cup {Call(c, <<x>>) : c \in Chains(MaxChain), x \in Chains(1)}

\* one application of objectHack to the current tree
ObjectHack ==
    /\ hackRuns < MaxHackRuns
    /\ ast # HackTypeError
    /\ ast' = objectHack(ast)
    /\ hackRuns' = hackRuns + 1
    /\ UNCHANGED <<hackIn, scopeVars, pageVars, truthyVars, execVars, genVars>>

(***************************************************************************)
(* Instructions, type tags and a stack machine for straight-line code      *)
(***************************************************************************)
\* an instruction: opcode, integer immediate, block type ("" when it has none)
I(op, imm) == [op |-> op, imm |-> imm, t |-> ""]
B(op, t) == [op |-> op, imm |-> 0, t |-> t]

TYPES == [number |-> 0, boolean |-> 1, string |-> 2, undefined |-> 3, object |-> 4,
          function |-> 5, symbol |-> 6, bigint |-> 7, _array |-> 16, _regexp |-> 17]
TypeTags == {TYPES[k] : k \in DOMAIN TYPES}

\* number(n, valtype): one const instruction of that valtype
Number(n, vt) == <<I(vt \o "_const", n)>>
\* the generic opcodes the driver resolves from the valtype (lines 2942-2950)
OpEqz(vt) == IF vt = "f64" THEN Number(0, vt) \o <<I("f64_eq", 0)>> ELSE <<I(vt \o "_eqz", 0)>>
OpI32To(vt) ==
    IF vt = "f64" THEN I("i32_trunc_sat_f64_s", 0)
    ELSE IF vt = "i64" THEN I("i32_wrap_i64", 0) ELSE I("null", 0)
OpI32ToU(vt) ==
    IF vt = "f64" THEN I("i32_trunc_sat_f64_u", 0)
    ELSE IF vt = "i64" THEN I("i32_wrap_i64", 0) ELSE I("null", 0)
OpI32FromU(vt) ==
    IF vt = "f64" THEN I("f64_convert_i32_u", 0)
    ELSE IF vt = "i64" THEN I("i64_extend_i32_u", 0) ELSE I("null", 0)
OpI32From(vt) ==
    IF vt = "f64" THEN I("f64_convert_i32_s", 0)
    ELSE IF vt = "i64" THEN I("i64_extend_i32_s", 0) ELSE I("null", 0)
\* isIntOp: opcodes 0xb7..0xba, the int -> f64 conversions
isIntOp(inst) ==
    inst.op \in {"f64_convert_i32_s", "f64_convert_i32_u", "f64_convert_i64_s", "f64_convert_i64_u"}
LastIsIntOp(wasm) == wasm # <<>> /\ isIntOp(wasm[Len(wasm)])

\* A runtime value: f64 values are counted in halves (h = 1 is 0.5) or are NaN,
\* integer values are exact.
F64(h) == [ty |-> "f64", v |-> h, nan |-> FALSE]
NaN == [ty |-> "f64", v |-> 0, nan |-> TRUE]
IntVal(ty, n) == [ty |-> ty, v |-> n, nan |-> FALSE]
NoValue == [ty |-> "none", v |-> 0, nan |-> FALSE]
IsZero(val) == ~val.nan /\ val.v = 0
\* i32.trunc_sat_f64_u: NaN and negatives saturate to 0, fractions truncate
TruncSatU(val) == IntVal("i32", IF val.nan \/ val.v < 0 THEN 0 ELSE val.v \div 2)
Bool(b) == IntVal("i32", IF b THEN 1 ELSE 0)

Push(stack, val) == <<val>> \o stack
\* the effect of one instruction on [stack, loc], reading memory mem (the u32
\* length prefix stored at each pointer)
ExecInst(inst, st, mem) ==
    LET stack == st.stack
        top == stack[1]
        rest == Tail(stack)
    IN CASE inst.op = "local_get" -> [st EXCEPT !.stack = Push(stack, st.loc[inst.imm])]
         [] inst.op = "local_set" -> [stack |-> rest, loc |-> Put(st.loc, inst.imm, top)]
         [] inst.op = "f64_const" -> [st EXCEPT !.stack = Push(stack, F64(2 * inst.imm))]
         [] inst.op \in {"i32_const", "i64_const"} ->
                [st EXCEPT !.stack = Push(stack, IntVal(IF inst.op = "i32_const" THEN "i32" ELSE "i64", inst.imm))]
         [] inst.op = "i32_trunc_sat_f64_u" -> [st EXCEPT !.stack = Push(rest, TruncSatU(top))]
         [] inst.op = "f64_convert_i32_u" -> [st EXCEPT !.stack = Push(rest, F64(2 * top.v))]
         [] inst.op = "i32_wrap_i64" -> [st EXCEPT !.stack = Push(rest, IntVal("i32", top.v))]
         [] inst.op = "i64_extend_i32_u" -> [st EXCEPT !.stack = Push(rest, IntVal("i64", top.v))]
         [] inst.op = "null" -> st
         [] inst.op = "i32_load" -> [st EXCEPT !.stack = Push(rest, IntVal("i32", mem[top.v]))]
         [] inst.op \in {"i32_eqz", "i64_eqz"} -> [st EXCEPT !.stack = Push(rest, Bool(IsZero(top)))]
         [] inst.op = "f64_eq" ->
                [st EXCEPT !.stack = Push(Tail(rest),
                    Bool(~top.nan /\ ~rest[1].nan /\ top.v = rest[1].v))]

RECURSIVE Exec(_, _, _)
Exec(code, st, mem) ==
    IF code = <<>> THEN st ELSE Exec(Tail(code), ExecInst(Head(code), st, mem), mem)

(***************************************************************************)
(* typeSwitch on a statically known type, truthy and falsy                 *)
(***************************************************************************)
NoKnownType == -1
\* knownType: the tag when the type code is a single i32.const
knownType(type) ==
    IF Len(type) = 1 /\ type[1].op = "i32_const" THEN type[1].imm ELSE NoKnownType

\* typeSwitch, lines 1755-1758: bc[known] ?? bc.default
typeSwitchKnown(type, bc) ==
    IF Has(bc.arms, knownType(type)) THEN bc.arms[knownType(type)] ELSE bc.default

\* the name and type of the temporary truthy/falsy/nullish share
LogicInnerTmp(intIn) == IF intIn THEN "$logicinner_tmp_int" ELSE "$logicinner_tmp"
LogicInnerType(intIn, vt) == IF intIn THEN I32 ELSE vt
\* number(n, intOut ? Valtype.i32 : valtypeBinary)
OutNumber(n, intOut, vt) == Number(n, IF intOut THEN I32 ELSE vt)

\* a slip in truthy's string arm: the length test copied from falsy
truthyStringArmEqz(tmp, intIn, intOut, vt) ==
    <<I("local_get", tmp)>> \o (IF intIn THEN <<>> ELSE <<OpI32ToU(vt)>>)
      \o <<I("i32_load", 0), I("i32_eqz", 0)>>
      \o (IF intOut THEN <<>> ELSE <<OpI32FromU(vt)>>)

\* truthy, lines 671-682: strings are truthy iff their length is not 0
truthyStringArm(tmp, intIn, intOut, vt) ==
    <<I("local_get", tmp)>> \o (IF intIn THEN <<>> ELSE <<OpI32ToU(vt)>>)
      \o <<I("i32_load", 0)>>
      \o (IF intOut THEN <<>> ELSE <<OpI32FromU(vt)>>)

\* truthy, lines 649-659: the value itself
truthyDefault(tmp, intIn, intOut, vt) ==
    <<I("local_get", tmp)>>
      \o (IF ~intOut \/ (intIn /\ intOut) THEN <<>> ELSE <<OpI32ToU(vt)>>)

\* truthy, lines 665-684: the arms of its type switch
truthyArms(tmp, intIn, intOut, vt) ==
    [arms |-> (TYPES._array :> OutNumber(1, intOut, vt))
              @@ (TYPES.string :> truthyStringArm(tmp, intIn, intOut, vt)),
     default |-> truthyDefault(tmp, intIn, intOut, vt)]
\* truthy, lines 641-686, with tmp the slot localTmp returned
truthy(tmp, wasm, type, intIn, intOut, vt) ==
    IF LastIsIntOp(wasm)
    THEN wasm \o (IF ~intIn /\ intOut THEN <<OpI32ToU(vt)>> ELSE <<>>)
    ELSE wasm \o <<I("local_set", tmp)>>
           \o typeSwitchKnown(type, truthyArms(tmp, intIn, intOut, vt))

\* falsy, lines 694-717: the arms of its type switch
falsyArms(tmp, intIn, intOut, vt) ==
    [arms |-> (TYPES._array :> OutNumber(0, intOut, vt))
              @@ (TYPES.string :>
                    (<<I("local_get", tmp)>>
                       \o (IF intIn THEN <<>> ELSE <<OpI32ToU(vt)>>)
                       \o <<I("i32_load", 0), I("i32_eqz", 0)>>
                       \o (IF intOut THEN <<>> ELSE <<OpI32FromU(vt)>>))),
     default |-> (<<I("local_get", tmp)>>
                    \o (IF intIn THEN <<I("i32_eqz", 0)>> ELSE OpEqz(vt))
                    \o (IF intOut THEN <<>> ELSE <<OpI32FromU(vt)>>))]
\* falsy, lines 688-719
falsy(tmp, wasm, type, intIn, intOut, vt) ==
    wasm \o <<I("local_set", tmp)>>
      \o typeSwitchKnown(type, falsyArms(tmp, intIn, intOut, vt))

\* nullish, lines 727-743: the arms of its type switch
nullishArms(tmp, intIn, intOut, vt) ==
    [arms |-> (TYPES.undefined :> OutNumber(1, intOut, vt))
              @@ (TYPES.object :>
                    (<<I("local_get", tmp)>>
                       \o (IF intIn THEN <<I("i32_eqz", 0)>> ELSE OpEqz(vt))
                       \o (IF intOut THEN <<>> ELSE <<OpI32FromU(vt)>>))),
     default |-> OutNumber(0, intOut, vt)]

\* a result counts as non-zero unless it is exactly 0
NonZero(val) == val.nan \/ val.v # 0
\* run code on an empty stack with the payload in slot 0; the result is the top
Run(code, x, mem) == Exec(code, [stack |-> <<>>, loc |-> (0 :> x)], mem).stack[1]

\* truthy(scope, wasm, type, intIn, intOut) and the value its code computes
RunTruthy ==
    /\ tOut = NoValue
    /\ LET name == LogicInnerTmp(tIn.intIn)
           tmp == LocalTmpIdx(locals, localInd, name)
       IN /\ IF LastIsIntOp(tIn.wasm)
             THEN UNCHANGED <<locals, localInd>>
             ELSE /\ locals' = LocalTmpLocals(locals, localInd, name, LogicInnerType(tIn.intIn, tIn.vt))
                  /\ localInd' = LocalTmpInd(locals, localInd, name)
          /\ tOut' = Run(truthy(tmp, tIn.wasm, tIn.type, tIn.intIn, tIn.intOut, tIn.vt),
                         tIn.x, tIn.mem)
    /\ UNCHANGED <<tIn, fOut, globals, globalInd, created, pageVars, hackVars, genVars, execVars>>

\* falsy(scope, wasm, type, intIn, intOut) and the value its code computes
RunFalsy ==
    /\ fOut = NoValue
    /\ LET name == LogicInnerTmp(tIn.intIn)
           tmp == LocalTmpIdx(locals, localInd, name)
       IN /\ locals' = LocalTmpLocals(locals, localInd, name, LogicInnerType(tIn.intIn, tIn.vt))
          /\ localInd' = LocalTmpInd(locals, localInd, name)
          /\ fOut' = Run(falsy(tmp, tIn.wasm, tIn.type, tIn.intIn, tIn.intOut, tIn.vt),
                        tIn.x, tIn.mem)
    /\ UNCHANGED <<tIn, tOut, globals, globalInd, created, pageVars, hackVars, genVars, execVars>>

(***************************************************************************)
(* The generator: AST nodes                                                *)
(***************************************************************************)
\* Nodes keep the field names of the parser's AST.  A string literal carries
\* its char codes in str, a number literal its number in value.
NumLit(n) == [type |-> "Literal", value |-> n]
StrLit(codes) == [type |-> "Literal", str |-> codes]
ExpressionStatement(e) == [type |-> "ExpressionStatement", expression |-> e]
BareReturn == [type |-> "ReturnStatement"]
ReturnStatement(e) == [type |-> "ReturnStatement", argument |-> e]
BlockStatement(stmts) == [type |-> "BlockStatement", body |-> stmts]
WhileStatement(test, body) == [type |-> "WhileStatement", test |-> test, body |-> body]
ForStatement(init, test, update, body) ==
    [type |-> "ForStatement", init |-> init, test |-> test, update |-> update, body |-> body]
TryStatement(block, handlerBody) ==
    [type |-> "TryStatement", block |-> block, handler |-> [body |-> handlerBody]]
BreakStatement == [type |-> "BreakStatement"]
ContinueStatement == [type |-> "ContinueStatement"]
IfStatement(test, cons) == [type |-> "IfStatement", test |-> test, consequent |-> cons]
IfElseStatement(test, cons, alt) ==
    [type |-> "IfStatement", test |-> test, consequent |-> cons, alternate |-> alt]
ConditionalExpression(test, cons, alt) ==
    [type |-> "ConditionalExpression", test |-> test, consequent |-> cons, alternate |-> alt]
\* try { } without a handler
TryOnlyStatement(block) == [type |-> "TryStatement", block |-> block]
\* let name, without an init
Declaration(name) ==
    [type |-> "VariableDeclaration", declarations |-> <<[id |-> [name |-> name]]>>]
\* for (let name of right) body
ForOfStatement(name, right, body) ==
    [type |-> "ForOfStatement", left |-> Declaration(name), right |-> right, body |-> body]
NewExpression(constructor, message) ==
    [type |-> "NewExpression", callee |-> [name |-> constructor],
     arguments |-> <<[value |-> message]>>]
ThrowStatement(arg) == [type |-> "ThrowStatement", argument |-> arg]
VariableDeclaration(name, init) ==
    [type |-> "VariableDeclaration", declarations |-> <<[id |-> [name |-> name], init |-> init]>>]
FunctionDeclaration(name, params, stmts) ==
    [type |-> "FunctionDeclaration", id |-> [name |-> name], params |-> params,
     body |-> BlockStatement(stmts)]
\* () => e : no id, an expression body
ArrowFunctionExpression(e) ==
    [type |-> "ArrowFunctionExpression", params |-> <<>>, body |-> e, expression |-> TRUE]
\* a node generate has no case for
ClassDeclaration == [type |-> "ClassDeclaration"]
\* the program as the default export rewrites it: id main, body a block
Program(stmts) == [type |-> "Program", id |-> [name |-> "main"], params |-> <<>>,
                   body |-> BlockStatement(stmts)]
\* bad hack for undefined: the node pushed for a missing argument
DEFAULT_VALUE == Ident("undefined")

\* a number literal beyond the small ones: value holds its low 16 bits and high
\* the multiples of 2^16 above them (4294967296 is high 65536, value 0)
WideLit(high, low) == [type |-> "Literal", value |-> low, high |-> high]
\* 1e999: a number literal whose value is Infinity
InfLit == [type |-> "Literal", value |-> 0, infinite |-> TRUE]
\* a string literal: its text in value, its char codes in str
StringLiteral(text, codes) == [type |-> "Literal", value |-> text, str |-> codes]
UnaryExpression(operator, arg) ==
    [type |-> "UnaryExpression", operator |-> operator, prefix |-> TRUE, argument |-> arg]
AssignmentExpression(operator, target, right) ==
    [type |-> "AssignmentExpression", operator |-> operator, left |-> target, right |-> right]
UpdateExpression(operator, prefix, arg) ==
    [type |-> "UpdateExpression", operator |-> operator, prefix |-> prefix, argument |-> arg]
\* new Array(...args)
NewArray(args) == [type |-> "NewExpression", callee |-> [name |-> "Array"], arguments |-> args]

(***************************************************************************)
(* The generator: names.  The string operations of the code work on the    *)
(* spelling of a name: its underscores and the runs of other characters    *)
(* between them.                                                           *)
(***************************************************************************)
\* the spellings of the names written with underscores
Spellings ==
    {<<"_", "_", "x">>, <<"_", "_", "a", "_", "b">>, <<"_", "_", "q", "_", "b">>,
     <<"_", "_", "globalThis", "_", "x">>, <<"_", "_", "globalThis", "_", "y">>}
RECURSIVE Str(_)
Str(s) == IF s = <<>> THEN "" ELSE Head(s) \o Str(Tail(s))
\* the spelling of a name; a name written without underscores is one run
Chars(name) ==
    IF name = "" THEN <<>>
    ELSE IF \E s \in Spellings : Str(s) = name THEN CHOOSE s \in Spellings : Str(s) = name
    ELSE <<name>>

\* x.startsWith(prefix), x.slice(n), x.includes('_')
StartsWith(s, prefix) == Len(s) >= Len(prefix) /\ SubSeq(s, 1, Len(prefix)) = prefix
Slice(s, n) == SubSeq(s, n + 1, Len(s))
IncludesUnderscore(s) == \E i \in 1..Len(s) : s[i] = "_"
Sentinel == <<"_", "_">>
GlobalThisPrefix == <<"_", "_", "globalThis", "_">>

\* mapName
mapName(x) ==
    LET key == Slice(Chars(x), Len(GlobalThisPrefix))
    IN IF StartsWith(Chars(x), GlobalThisPrefix)
       THEN IF IncludesUnderscore(key) THEN Str(Sentinel \o key) ELSE Str(key)
       ELSE x

\* unhackName: __a_b is shown as a.b
unhackName(name) ==
    LET key == Slice(Chars(name), 2)
    IN IF StartsWith(Chars(name), Sentinel)
       THEN Str([i \in 1..Len(key) |-> IF key[i] = "_" THEN "." ELSE key[i]])
       ELSE name

\* generateIdent: rawName.slice(2).split('_').slice(0, -1).join('_'), with the
\* sentinel put back when an underscore is left
ParentName(rawName) ==
    LET key == Slice(Chars(rawName), 2)
        cuts == {i \in 1..Len(key) : key[i] = "_"}
        last == IF cuts = {} THEN 1 ELSE CHOOSE i \in cuts : \A j \in cuts : j <= i
        parent == SubSeq(key, 1, last - 1)
    IN IF IncludesUnderscore(parent) THEN Str(Sentinel \o parent) ELSE Str(parent)

\* the names of internalConstrs
InternalConstrNames == {"Array", "__Array_of"}
\* JavaScript's null
null == "null"

(***************************************************************************)
(* The generator: registers, scopes and leftover counting                  *)
(***************************************************************************)
\* importedFuncs holds the number printer and the character printer
importedFuncsLength == 2

\* the registers the default export re-creates at lines 2918-2928
InitialRegisters ==
    [globals |-> EmptyMap, globalInd |-> 0, tags |-> <<>>, exceptions |-> <<>>,
     funcs |-> <<>>, funcIndex |-> EmptyMap, depth |-> <<>>, arrays |-> EmptyMap,
     pages |-> EmptyMap, hasArray |-> FALSE, hasString |-> FALSE, data |-> <<>>,
     currentFuncIndex |-> importedFuncsLength]
RegisterNames == DOMAIN InitialRegisters

\* a reset that forgets the depth stack
ResetKeepDepth(regs) == [InitialRegisters EXCEPT !.depth = regs.depth]
\* lines 2918-2928
Reset(regs) == InitialRegisters

NewScope(name) == [locals |-> EmptyMap, localInd |-> 0, throws |-> FALSE, name |-> name]

\* funcs.find(x => x.index === idx)
HasFunc(fs, idx) == \E i \in 1..Len(fs) : fs[i].index = idx
FindFunc(fs, idx) == fs[CHOOSE i \in 1..Len(fs) :
                          fs[i].index = idx /\ \A j \in 1..(i - 1) : fs[j].index # idx]

NeutralOps == {"null", "i32_eqz", "i64_eqz", "local_tee", "i32_wrap_i64", "i64_extend_i32_u",
               "f64_convert_i32_s", "f64_convert_i32_u", "end", "i32_trunc_sat_f64_u",
               "i32_load"}
\* countLeftover: one iteration of the loop on acc = [count, depth]
CountInst(acc, inst, fs) ==
    LET c1 == IF acc.depth = 0 /\ inst.op \in {"if", "block", "loop"}
              THEN acc.count - (IF inst.op = "if" THEN 1 ELSE 0)
                             + (IF inst.t # "void" THEN 1 ELSE 0)
              ELSE acc.count
        d1 == acc.depth + (IF inst.op \in {"if", "try", "loop", "block"} THEN 1 ELSE 0)
                        - (IF inst.op = "end" THEN 1 ELSE 0)
        c2 == IF d1 # 0 THEN c1
              ELSE IF inst.op \in {"throw", "drop", "local_set", "global_set"} THEN c1 - 1
              ELSE IF inst.op \in NeutralOps THEN c1
              ELSE IF inst.op \in {"local_get", "global_get", "f64_const", "i32_const", "i64_const"}
                   THEN c1 + 1
              ELSE IF inst.op \in {"i32_store", "i32_store16"} THEN c1 - 2
              ELSE IF inst.op = "return" THEN 0
              ELSE IF inst.op = "call"
                   THEN IF HasFunc(fs, inst.imm)
                        THEN c1 - Len(FindFunc(fs, inst.imm).params)
                                + Len(FindFunc(fs, inst.imm).returns)
                        ELSE c1 - 1
              ELSE c1 - 1
    IN [count |-> c2, depth |-> d1]

\* the one element of a singleton set: The({e(r) : r \in {x}}) is e of the value of x
The(S) == CHOOSE x \in S : TRUE

RECURSIVE CountFrom(_, _, _)
CountFrom(acc, wasm, fs) ==
    IF wasm = <<>> THEN acc.count
    ELSE The({CountFrom(a, Tail(wasm), fs) : a \in {CountInst(acc, Head(wasm), fs)}})
countLeftover(wasm, fs) == CountFrom([count |-> 0, depth |-> 0], wasm, fs)

\* disposeLeftover: one drop per leftover value (none when the count is not positive)
disposeLeftover(wasm, fs) ==
    wasm \o [i \in 1..(IF countLeftover(wasm, fs) > 0 THEN countLeftover(wasm, fs) ELSE 0)
               |-> I("drop", 0)]

(***************************************************************************)
(* The generator: lowering.  A lowering state st holds the registers, the  *)
(* current scope, the pending Math.random outcomes, whether a TodoError    *)
(* was thrown, and out, the instructions the last call returned.           *)
(***************************************************************************)
Out(st, code) == [st EXCEPT !.out = code]
\* todo(msg): throws, the registers stay as they are at that point
todo(st) == [st EXCEPT !.err = TRUE, !.out = <<>>]
\* a TypeError of the compiler itself ends the compilation the same way
crash(st) == [st EXCEPT !.err = TRUE, !.out = <<>>]

\* the key 'default' among the keys of an arm table, which are type tags
DefaultKey == -1
\* Object.keys(bc): the tags in ascending order, then 'default'
RECURSIVE Ascending(_)
Ascending(S) ==
    IF S = {} THEN <<>>
    ELSE LET least == CHOOSE x \in S : \A y \in S : x <= y
         IN <<least>> \o Ascending(S \ {least})
Keys(bc) == Ascending(DOMAIN bc.arms) \o <<DefaultKey>>
\* bc[x]
Arm(bc, x) == IF x = DefaultKey THEN bc.default ELSE bc.arms[x]
\* (a, b) => b - a on keys: NaN when one of them is 'default', which sort takes
\* for 0
CompareKeys(a, b) == IF a = DefaultKey \/ b = DefaultKey THEN 0 ELSE b - a
Reverse(seq) == [k \in 1..Len(seq) |-> seq[Len(seq) + 1 - k]]
\* Array.prototype.sort on fewer than 64 elements: the run the array starts
\* with, reversed when it descends, ...
CountAndMakeRun(a) ==
    LET isDescending == CompareKeys(a[2], a[1]) < 0
        RECURSIVE RunLength(_)
        RunLength(k) ==
            IF k > Len(a) THEN k - 1
            ELSE IF isDescending /\ CompareKeys(a[k], a[k - 1]) >= 0 THEN k - 1
            ELSE IF ~isDescending /\ CompareKeys(a[k], a[k - 1]) < 0 THEN k - 1
            ELSE RunLength(k + 1)
        run == RunLength(3)
    IN [length |-> run,
        array |-> IF isDescending THEN Reverse(SubSeq(a, 1, run)) \o SubSeq(a, run + 1, Len(a))
                  ELSE a]
\* ... and a binary insertion of each element after the run
RECURSIVE BinaryInsertionSort(_, _)
BinaryInsertionSort(a, start) ==
    IF start > Len(a) THEN a
    ELSE LET pivot == a[start]
             RECURSIVE Find(_, _)
             Find(lo, hi) ==
                 IF lo >= hi THEN lo
                 ELSE LET mid == lo + ((hi - lo) \div 2)
                      IN IF CompareKeys(pivot, a[mid]) < 0 THEN Find(lo, mid)
                         ELSE Find(mid + 1, hi)
             at == Find(1, start)
         IN BinaryInsertionSort(SubSeq(a, 1, at - 1) \o <<pivot>> \o SubSeq(a, at, start - 1)
                                  \o SubSeq(a, start + 1, Len(a)), start + 1)
Sort(a) ==
    IF Len(a) < 2 THEN a
    ELSE BinaryInsertionSort(CountAndMakeRun(a).array, CountAndMakeRun(a).length + 1)

\* brTable, lines 1703-1720: the table from the least to the
\* greatest key that filter(x => +x) keeps
TableOf(bc, offset, max) ==
    LET RECURSIVE Fill(_, _)
        Fill(k, br) ==
            IF k > max THEN <<>>
            ELSE IF Has(bc.arms, k) THEN <<br>> \o Fill(k + 1, br + 1)
            ELSE <<0>> \o Fill(k + 1, br)
    IN Fill(offset, 1)
\* brTable, lines 1670-1752
brTable(input, bc, returns) ==
    LET keys == Keys(bc)
        count == Len(keys)
        nums == {x \in DOMAIN bc.arms : x # 0}
        offset == CHOOSE x \in nums : \A y \in nums : x <= y
        max == CHOOSE x \in nums : \A y \in nums : x >= y
        orderedBc == Reverse(Sort(keys))
        RECURSIVE Arms(_)
        Arms(k) ==
            IF k > count THEN <<>>
            ELSE <<I("end", 0)>> \o Arm(bc, orderedBc[k])
                   \o (IF count - k = 0 THEN <<>> ELSE <<I("br", count - k)>>)
                   \o Arms(k + 1)
    IN IF count = 1 THEN Arm(bc, keys[1])
       ELSE IF count = 2
       THEN input \o Number(keys[1], I32) \o <<I("i32_eq", 0), B("if", returns)>>
              \o Arm(bc, keys[1]) \o <<I("else", 0)>> \o bc.default \o <<I("end", 0)>>
       ELSE <<B("block", returns)>> \o [k \in 1..(count - 1) |-> B("block", "void")]
              \o <<B("block", "void")>> \o input
              \o (IF offset > 0 THEN Number(offset, I32) \o <<I("i32_sub", 0)>> ELSE <<>>)
              \o <<I("br_table", [table |-> TableOf(bc, offset, max), default |-> 0])>>
              \o Arms(1) \o <<I("end", 0)>>

\* typeSwitch, lines 1763-1792: the chain of ifs on the temporary tmp
typeSwitchChain(tmp, type, bc, returns) ==
    LET keys == Ascending(DOMAIN bc.arms)
        RECURSIVE Ifs(_)
        Ifs(k) ==
            IF k > Len(keys) THEN <<>>
            ELSE <<I("local_get", tmp)>> \o Number(keys[k], I32)
                   \o <<I("i32_eq", 0), B("if", "void")>> \o bc.arms[keys[k]]
                   \o <<I("br", 1), I("end", 0)>> \o Ifs(k + 1)
    IN type \o <<I("local_set", tmp), B("block", returns)>> \o Ifs(1)
         \o bc.default \o <<I("end", 0)>>
\* typeSwitch, lines 1754-1793, for a type that is not known: useBrTable is the
\* flag -typeswitch-use-brtable
typeSwitch(tmp, type, bc, returns, useBrTable) ==
    IF knownType(type) # NoKnownType THEN typeSwitchKnown(type, bc)
    ELSE IF useBrTable THEN brTable(type, bc, returns)
    ELSE typeSwitchChain(tmp, type, bc, returns)

\* performLogicOp, lines 336-340 and 372: checks[op](scope, [], type, intIn,
\* true) with the slots of its temporary and of the type switch's
LogicCheck(op, tmp, switchTmp, type, intIn, vt) ==
    <<I("local_set", tmp)>>
      \o typeSwitch(switchTmp, type,
                    IF op = "||" THEN falsyArms(tmp, intIn, TRUE, vt)
                    ELSE IF op = "&&" THEN truthyArms(tmp, intIn, TRUE, vt)
                    ELSE nullishArms(tmp, intIn, TRUE, vt),
                    I32, FALSE)

\* localTmp / allocVar on the scope of a lowering state
StLocalTmp(st, name, type) ==
    [st EXCEPT !.scope.locals = LocalTmpLocals(@, st.scope.localInd, name, type),
               !.scope.localInd = LocalTmpInd(st.scope.locals, @, name)]
StAllocVar(st, name, global) ==
    IF global
    THEN IF Has(st.globals, name) THEN st
         ELSE [st EXCEPT !.globals = AllocPair(@, st.globalInd, name), !.globalInd = @ + 2]
    ELSE IF Has(st.scope.locals, name) THEN st
         ELSE [st EXCEPT !.scope.locals = AllocPair(@, st.scope.localInd, name),
                         !.scope.localInd = @ + 2]

\* getType(scope, name)
getType(st, rawName) ==
    LET name == mapName(rawName)
    IN IF Has(st.scope.locals, name) THEN <<I("local_get", st.scope.locals[TypeKey(name)].idx)>>
       ELSE IF Has(st.globals, name) THEN <<I("global_get", st.globals[TypeKey(name)].idx)>>
       ELSE Number(IF Has(st.funcIndex, name) \/ name \in InternalConstrNames
                   THEN TYPES.function ELSE TYPES.undefined, I32)

\* setType(scope, name, type); nothing when the name is not bound
setType(st, rawName, type) ==
    LET name == mapName(rawName)
    IN IF Has(st.scope.locals, name)
       THEN type \o <<I("local_set", st.scope.locals[TypeKey(name)].idx)>>
       ELSE IF Has(st.globals, name)
            THEN type \o <<I("global_set", st.globals[TypeKey(name)].idx)>>
       ELSE <<>>

\* getNodeType(scope, node) for the nodes above: the type code of the node
RECURSIVE getNodeType(_, _)
getNodeType(st, node) ==
    CASE node.type = "Literal" ->
            Number(IF "str" \in DOMAIN node THEN TYPES.string ELSE TYPES.number, I32)
      [] node.type \in {"FunctionDeclaration", "ArrowFunctionExpression"} ->
            Number(TYPES.function, I32)
      [] node.type = "Identifier" -> getType(st, node.name)
      [] node.type = "ExpressionStatement" -> getNodeType(st, node.expression)
      [] node.type = "AssignmentExpression" -> getNodeType(st, node.right)
      [] node.type = "UnaryExpression" ->
            Number(IF node.operator = "delete" THEN TYPES.boolean ELSE TYPES.number, I32)
      [] node.type = "MemberExpression" -> Number(TYPES.number, I32)
      [] node.type \in {"CallExpression", "NewExpression"} /\ "name" \in DOMAIN node.callee
            /\ node.callee.name \in InternalConstrNames -> Number(TYPES._array, I32)
      [] OTHER ->
            IF Has(st.scope.locals, "#last_type")
            THEN <<I("local_get", st.scope.locals["#last_type"].idx)>>
            ELSE Number(TYPES.number, I32)

\* !x for the value of a literal node: no value, the empty string, or 0
NoMessage(node) ==
    \/ "value" \notin DOMAIN node
    \/ IF "str" \in DOMAIN node THEN node.value = "" ELSE node.value = 0

\* the record generateThrow pushes; a message that is undefined is left out
ExceptionRecord(constructor, node) ==
    IF "value" \in DOMAIN node THEN [constructor |-> constructor, message |-> node.value]
    ELSE [constructor |-> constructor]

\* an exceptId that is the length after the push
exceptIdAfterPush(exceptions0) == Len(exceptions0) + 1
\* generateThrow, line 2466: exceptions.push(...) - 1, the index of the record
\* pushed on the list exceptions0
exceptId(exceptions0) == Len(exceptions0)

\* generateThrow(scope, decl)
generateThrow(st, decl) ==
    LET arg == decl.argument
        viaCallee == NoMessage(arg) /\ arg.type \in {"NewExpression", "CallExpression"}
        tags1 == IF st.tags = <<>>
                 THEN <<[params |-> <<I32>>, results |-> <<>>, idx |-> 0]>> ELSE st.tags
        thrown == [st EXCEPT !.scope.throws = TRUE]
    IN IF viaCallee /\ arg.arguments = <<>> THEN crash(thrown)
       ELSE [thrown EXCEPT
               !.tags = tags1,
               !.exceptions = Append(@, IF viaCallee
                                        THEN ExceptionRecord(arg.callee.name, arg.arguments[1])
                                        ELSE ExceptionRecord(null, arg)),
               !.out = <<I("i32_const", exceptId(st.exceptions)), I("throw", tags1[1].idx)>>]

\* internalThrow(scope, constructor, message, expectsValue)
internalThrow(st, constructor, message, expectsValue) ==
    LET t == generateThrow(st, ThrowStatement(NewExpression(constructor, message)))
    IN Out(t, t.out \o (IF expectsValue THEN Number(0, valtypeBinary) ELSE <<>>))

\* generateIdent, lookup(rawName); the builtin variable undefined is the number
\* UNDEFINED, and no name of the programs lowered here is an import
\* a parent that is never taken for known
KnownParentNever(parentLookup) == FALSE
\* generateIdent, line 295: !parentLookup[1], the lookup of the parent gave one
\* instruction
KnownParent(parentLookup) == Len(parentLookup) < 2
RECURSIVE lookup(_, _)
lookup(st, rawName) ==
    LET name == mapName(rawName)
        noLocal == ~Has(st.scope.locals, rawName)
        notDefined == internalThrow(st, "ReferenceError", unhackName(name) \o " is not defined", TRUE)
    IN IF name = "undefined" THEN Out(st, Number(0, valtypeBinary))
       ELSE IF name \in InternalConstrNames THEN Out(st, Number(1, valtypeBinary))
       ELSE IF noLocal /\ Has(st.funcIndex, name)
            THEN Out(st, Number(st.funcIndex[name], valtypeBinary))
       ELSE IF noLocal /\ Has(st.globals, name)
            THEN Out(st, <<I("global_get", st.globals[name].idx)>>)
       ELSE IF noLocal /\ StartsWith(Chars(rawName), Sentinel)
            THEN The({IF KnownParent(parentLookup.out)
                      THEN Out(parentLookup, Number(0, valtypeBinary))
                      ELSE internalThrow(parentLookup, "ReferenceError",
                                         unhackName(name) \o " is not defined", TRUE) :
                        parentLookup \in {lookup(st, ParentName(rawName))}})
       ELSE IF noLocal THEN notDefined
       ELSE Out(st, <<I("local_get", st.scope.locals[rawName].idx)>>)

generateIdent(st, decl) == lookup(st, decl.name)

\* makeArray on a lowering state, for raw elements that are all present
StMakeArray(st, name, itemType, rawElements, initEmpty) ==
    LET first == MakeArrayFirstAssign(st.arrays, name)
        reason == MakeArrayReason(name, itemType, Head(st.rnd))
        pointer == IF first THEN AllocPageInd(st.pages, reason) * pageSize ELSE st.arrays[name]
        length == Len(rawElements)
    IN IF first
       THEN [st EXCEPT !.rnd = IF name = Undeclared THEN Tail(@) ELSE @,
                       !.arrays = Put(@, name, pointer),
                       !.pages = AllocPageMap(@, reason, itemType),
                       !.hasArray = AllocPageHasArray(st.pages, @, reason),
                       !.hasString = AllocPageHasString(st.pages, @, reason),
                       !.data = Append(@, [offset |-> pointer,
                                  bytes |-> CompileBytes(length, "i32")
                                    \o (IF initEmpty THEN <<>>
                                        ELSE ElementBytes(rawElements, itemType))]),
                       !.out = Number(pointer, valtypeBinary)]
       ELSE Out(st, <<I("i32_const", 0), I("i32_const", length), I("i32_store", pointer)>>
                    \o (IF initEmpty THEN <<>>
                        ELSE [k \in 1..(3 * length) |->
                                IF k % 3 = 1 THEN I("i32_const", 0)
                                ELSE IF k % 3 = 2 THEN I("i32_const", rawElements[(k + 1) \div 3])
                                ELSE I("i32_store16", pointer)])
                    \o Number(pointer, valtypeBinary))

\* generateLiteral(scope, decl, global, name); name is $undeclared by default
generateLiteral(st, decl, name) ==
    IF "str" \in DOMAIN decl THEN StMakeArray(st, name, "i16", decl.str, FALSE)
    ELSE Out(st, Number(decl.value, valtypeBinary))

\* generateReturn without an argument
BareReturnCode == Number(0, valtypeBinary) \o Number(TYPES.undefined, I32) \o <<I("return", 0)>>

\* generateFunc: the quick hack fix of the self-call placeholders, first one only
PatchFirst(wasm, index) ==
    [i \in 1..Len(wasm) |->
        IF wasm[i].op = "call" /\ wasm[i].imm = -1
           /\ \A j \in 1..(i - 1) : ~(wasm[j].op = "call" /\ wasm[j].imm = -1)
        THEN I("call", index) ELSE wasm[i]]
\* generateFunc, lines 2822-2827: every call -1 gets the function's index
Patch(wasm, index) ==
    [i \in 1..Len(wasm) |->
        IF wasm[i].op = "call" /\ wasm[i].imm = -1 THEN I("call", index) ELSE wasm[i]]

\* the valtypes of n distinct parameters: payload and type tag each
ParamTypes(n) == [i \in 1..(2 * n) |-> IF i % 2 = 1 THEN valtypeBinary ELSE I32]

RECURSIVE generate(_, _, _)
RECURSIVE generateCode(_, _, _)
RECURSIVE generateArgs(_, _, _, _)
RECURSIVE ArrayGenerate(_, _, _)
RECURSIVE generateFunc(_, _)

\* generateFunc, lines 2794-2800: allocVar for each parameter
RECURSIVE allocParams(_, _)
allocParams(st, params) ==
    IF params = <<>> THEN st
    ELSE allocParams(StAllocVar(st, Head(params), FALSE), Tail(params))

\* generateCode: the statements of a block in order, acc the code so far
generateCode(st, stmts, acc) ==
    IF st.err \/ stmts = <<>> THEN Out(st, acc)
    ELSE The({generateCode(r, Tail(stmts), acc \o r.out) :
                r \in {generate(st, Head(stmts), Undeclared)}})

\* generateCall, lines 1611-1615: each argument, followed by its type when the
\* callee has typed parameters
generateArgs(st, args, typedParams, acc) ==
    IF st.err \/ args = <<>> THEN Out(st, acc)
    ELSE The({generateArgs(r, Tail(args), typedParams,
                           acc \o r.out \o (IF typedParams THEN getNodeType(r, Head(args))
                                            ELSE <<>>)) :
                r \in {generate(st, Head(args), Undeclared)}})

\* the registry of built-in functions: isNaN, a pre-written body with one
\* parameter and one result
builtinFuncs ==
    [isNaN |-> [params |-> <<valtypeBinary>>, locals |-> <<>>, returns |-> <<valtypeBinary>>,
                wasm |-> <<I("local_get", 0), I("local_get", 0), I("f64_ne", 0),
                           I("f64_convert_i32_u", 0)>>]]

\* asmFunc(name, code) for a body without globals; its record has no throws and
\* no export field, which read as false
AsmRecord(st, name, code) ==
    [name |-> name, params |-> code.params,
     locals |-> [n \in {<<"x", "y", "z">>[i] : i \in 1..Len(code.params)} |->
                   [idx |-> (CHOOSE i \in 1..3 : <<"x", "y", "z">>[i] = n) - 1,
                    type |-> code.params[CHOOSE i \in 1..3 : <<"x", "y", "z">>[i] = n]]],
     returns |-> code.returns, wasm |-> code.wasm, internal |-> TRUE,
     throws |-> FALSE, export |-> FALSE,
     index |-> st.currentFuncIndex]
\* an asmFunc that takes the index without advancing it
asmFuncSameIndex(st, name, code) ==
    IF \E i \in 1..Len(st.funcs) : st.funcs[i].name = name THEN st
    ELSE [st EXCEPT !.funcs = Append(@, AsmRecord(st, name, code)),
                    !.funcIndex = Put(@, name, st.currentFuncIndex)]
\* asmFunc(name, code)
asmFunc(st, name, code) ==
    IF \E i \in 1..Len(st.funcs) : st.funcs[i].name = name THEN st
    ELSE [st EXCEPT !.currentFuncIndex = @ + 1,
                    !.funcs = Append(@, AsmRecord(st, name, code)),
                    !.funcIndex = Put(@, name, st.currentFuncIndex)]

\* what the external regex compiler returns for a pattern and an index: a fresh
\* function from a string pointer to an i32
Rhemyn(funcName, pattern, index) ==
    [name |-> "regex_" \o funcName \o "_" \o pattern, params |-> <<I32>>, returns |-> <<I32>>,
     locals |-> EmptyMap, wasm |-> <<I("local_get", 0)>>, internal |-> TRUE,
     throws |-> FALSE, export |-> FALSE, index |-> index]

\* generateCall, lines 1427-1449: /regex/.func(arg)
generateRegexCall(st, decl) ==
    LET func == Rhemyn(decl.callee.property.name, decl.callee.object.regex.pattern,
                       st.currentFuncIndex)
        made == [st EXCEPT !.currentFuncIndex = @ + 1,
                           !.funcIndex = Put(@, func.name, func.index),
                           !.funcs = Append(@, func)]
    IN The({IF a.err THEN a
            ELSE Out(StLocalTmp(a, "#last_type", I32),
                     a.out \o <<OpI32ToU(valtypeBinary), I("call", func.index),
                                OpI32FromU(valtypeBinary)>>
                           \o Number(TYPES.boolean, I32)
                           \o <<I("local_set", LocalTmpIdx(a.scope.locals, a.scope.localInd,
                                                           "#last_type"))>>) :
              a \in {generate(made, decl.arguments[1], Undeclared)}})

\* generateCall, line 1609, never marking the caller
PropagateThrowsNever(st, idx) == st
\* generateCall, line 1609: if (func && func.throws) scope.throws = true
PropagateThrows(st, idx) ==
    IF HasFunc(st.funcs, idx) /\ FindFunc(st.funcs, idx).throws
    THEN [st EXCEPT !.scope.throws = TRUE] ELSE st

\* generateCall, lines 1598-1607, without the padding
NormalizeArgsNoPadding(given, paramCount) ==
    IF Len(given) > paramCount THEN SubSeq(given, 1, paramCount) ELSE given
\* generateCall, lines 1598-1607: the arguments made as many as the parameters
NormalizeArgs(given, paramCount) ==
    IF Len(given) < paramCount
    THEN given \o [i \in 1..(paramCount - Len(given)) |-> DEFAULT_VALUE]
    ELSE SubSeq(given, 1, paramCount)

\* generateCall from line 1555 on, for a name that is no import and does not
\* start with the sentinel
generateNamedCall(st, decl, name, declName) ==
    LET known == Has(st.funcIndex, name)
        idx == IF known THEN st.funcIndex[name] ELSE -1
        found == HasFunc(st.funcs, idx)
        userFunc == (known /\ name \notin DOMAIN builtinFuncs \cup InternalConstrNames)
                    \/ idx = -1
        paramCount == IF userFunc THEN Len(FindFunc(st.funcs, idx).params) \div 2
                      ELSE Len(FindFunc(st.funcs, idx).params)
        args == IF found THEN NormalizeArgs(decl.arguments, paramCount) ELSE decl.arguments
    IN IF ~known /\ name \in InternalConstrNames
       THEN IF name = "Array" /\ Len(decl.arguments) <= 1
            THEN ArrayGenerate(st, decl, declName) ELSE todo(st)
       ELSE IF ~known /\ name # st.scope.name
       THEN IF Has(st.scope.locals, name) \/ Has(st.globals, name) \/ name = "undefined"
            THEN internalThrow(st, "TypeError", unhackName(name) \o " is not a function", FALSE)
            ELSE internalThrow(st, "ReferenceError", unhackName(name) \o " is not defined", FALSE)
       ELSE The({IF a.err THEN a
                 ELSE IF ~userFunc THEN Out(a, a.out \o <<I("call", idx)>>)
                 ELSE Out(StLocalTmp(a, "#last_type", I32),
                          a.out \o <<I("call", idx),
                                     I("local_set", LocalTmpIdx(a.scope.locals, a.scope.localInd,
                                                                "#last_type"))>>) :
                   a \in {generateArgs(PropagateThrows(st, idx), args, userFunc, <<>>)}})

\* generateCall: a regex literal's method, a built-in function to include, or
\* a named function
generateCall(st, decl, declName) ==
    IF decl.callee.type = "MemberExpression"
    THEN IF decl.callee.object.type = "Literal" /\ "regex" \in DOMAIN decl.callee.object
         THEN generateRegexCall(st, decl) ELSE todo(st)
    ELSE IF ~Has(st.funcIndex, mapName(decl.callee.name))
            /\ mapName(decl.callee.name) \in DOMAIN builtinFuncs
         THEN generateNamedCall(asmFunc(st, mapName(decl.callee.name),
                                        builtinFuncs[mapName(decl.callee.name)]),
                                decl, mapName(decl.callee.name), declName)
    ELSE generateNamedCall(st, decl, mapName(decl.callee.name), declName)

\* generateMember for a computed access on a number literal.  The arms of the
\* typeSwitch are built before it picks one: a scratch string page is made when
\* a string page exists, and setLastType allocates #last_type.
generateMember(st, decl) ==
    LET m == IF st.hasString THEN StMakeArray(st, Undeclared, "i16", <<0>>, TRUE) ELSE st
        t == StLocalTmp(m, "#last_type", I32)
    IN Out(t, typeSwitchKnown(getNodeType(t, decl.object),
                [arms |-> (TYPES._array :> <<I("f64_load", 0)>>)
                          @@ (TYPES.string :> <<I("i32_store16", 0)>>),
                 default |-> <<I("unreachable", 0)>>]))

\* generateExp
generateExp(st, decl) ==
    The({IF r.err THEN r ELSE Out(r, disposeLeftover(r.out, r.funcs)) :
           r \in {generate(st, decl.expression, Undeclared)}})

\* generateReturn
generateReturn(st, decl) ==
    IF "argument" \notin DOMAIN decl THEN Out(st, BareReturnCode)
    ELSE The({IF r.err THEN r
              ELSE Out(r, r.out \o getNodeType(r, decl.argument) \o <<I("return", 0)>>) :
                r \in {generate(st, decl.argument, Undeclared)}})

\* the depth stack without its last entry, whatever n
PopOne(d, n) == SubSeq(d, 1, Len(d) - 1)
\* the depth stack without its last n entries
Pop(d, n) == SubSeq(d, 1, Len(d) - n)
\* generateIf: the test through truthy, then the consequent and the alternate
\* one level deeper
IfTest(c, decl) ==
    [(IF LastIsIntOp(c.out) THEN c ELSE StLocalTmp(c, LogicInnerTmp(FALSE), valtypeBinary))
       EXCEPT !.depth = Append(@, "if"),
              !.out = truthy(LocalTmpIdx(c.scope.locals, c.scope.localInd, LogicInnerTmp(FALSE)),
                             c.out, getNodeType(c, decl.test), FALSE, TRUE, valtypeBinary)
                      \o <<B("if", "void")>>]
generateIf(st, decl) ==
    The({IF c.err THEN c
         ELSE The({IF r.err THEN r
                   ELSE IF "alternate" \notin DOMAIN decl
                   THEN [r EXCEPT !.depth = SubSeq(@, 1, Len(@) - 1),
                                  !.out = IfTest(c, decl).out \o disposeLeftover(r.out, r.funcs)
                                            \o <<I("end", 0)>>]
                   ELSE The({IF e.err THEN e
                             ELSE [e EXCEPT !.depth = SubSeq(@, 1, Len(@) - 1),
                                            !.out = IfTest(c, decl).out
                                                      \o disposeLeftover(r.out, r.funcs)
                                                      \o <<I("else", 0)>>
                                                      \o disposeLeftover(e.out, e.funcs)
                                                      \o <<I("end", 0)>>] :
                               e \in {generate(r, decl.alternate, Undeclared)}}) :
                     r \in {generate(IfTest(c, decl), decl.consequent, Undeclared)}}) :
           c \in {generate(st, decl.test, Undeclared)}})

\* setLastType(scope) after the type code of a node
NoteType(st, node) ==
    Out(StLocalTmp(st, "#last_type", I32),
        getNodeType(st, node)
          \o <<I("local_set", LocalTmpIdx(st.scope.locals, st.scope.localInd, "#last_type"))>>)
\* generateConditional
generateConditional(st, decl) ==
    The({IF c.err THEN c
         ELSE The({IF r.err THEN r
          ELSE The({IF e.err THEN e
                    ELSE [NoteType(e, decl.alternate) EXCEPT
                            !.depth = Pop(@, 1),
                            !.out = [IfTest(c, decl).out EXCEPT ![Len(IfTest(c, decl).out)] =
                                                                   B("if", valtypeBinary)]
                                      \o r.out \o NoteType(r, decl.consequent).out
                                      \o <<I("else", 0)>>
                                      \o e.out \o NoteType(e, decl.alternate).out
                                      \o <<I("end", 0)>>] :
                      e \in {generate(NoteType(r, decl.consequent), decl.alternate, Undeclared)}}) :
            r \in {generate(IfTest(c, decl), decl.consequent, Undeclared)}}) :
           c \in {generate(st, decl.test, Undeclared)}})

\* generateWhile
generateWhile(st, decl) ==
    The({IF t.err THEN t
         ELSE The({IF b.err THEN b
                   ELSE [b EXCEPT !.depth = Pop(@, 2),
                                  !.out = <<B("loop", "void")>> \o t.out
                                            \o <<OpI32To(valtypeBinary), B("if", "void")>>
                                            \o b.out
                                            \o <<I("br", 1), I("end", 0), I("end", 0)>>] :
                     b \in {generate([t EXCEPT !.depth = Append(@, "if")], decl.body, Undeclared)}}) :
           t \in {generate([st EXCEPT !.depth = Append(@, "while")], decl.test, Undeclared)}})

\* generateFor: the init with its leftovers disposed, then loop, test, if, the
\* body in a block, the update, and the branch back
generateFor(st, decl) ==
    The({IF i.err THEN i
         ELSE The({IF t.err THEN t
          ELSE The({IF b.err THEN b
           ELSE The({IF u.err THEN u
                     ELSE [u EXCEPT !.depth = Pop(@, 3),
                                    !.out = disposeLeftover(i.out, i.funcs)
                                              \o <<B("loop", "void")>> \o t.out
                                              \o <<OpI32To(valtypeBinary), B("if", "void"),
                                                   B("block", "void")>>
                                              \o b.out \o <<I("end", 0)>> \o u.out
                                              \o <<I("br", 1), I("end", 0), I("end", 0)>>] :
                       u \in {generate(b, decl.update, Undeclared)}}) :
            b \in {generate([t EXCEPT !.depth = @ \o <<"if", "block">>], decl.body, Undeclared)}}) :
           t \in {generate([i EXCEPT !.depth = Append(@, "for")], decl.test, Undeclared)}}) :
           i \in {IF "init" \in DOMAIN decl THEN generate(st, decl.init, Undeclared)
                  ELSE Out(st, <<>>)}})

\* getNearestLoop: the index from 0 of the last loop on the depth stack, or -1
getNearestLoop(d) ==
    LET loops == {i \in 1..Len(d) : d[i] \in {"while", "for", "forof"}}
    IN IF loops = {} THEN -1 ELSE (CHOOSE i \in loops : \A j \in loops : j <= i) - 1
\* signedLEB128 of an integer of one byte: seven bits in two's complement
signedLEB128(n) == IF n < 0 THEN n + 128 ELSE n
\* generateBreak
generateBreak(st, decl) ==
    Out(st, <<I("br", signedLEB128(Len(st.depth) - getNearestLoop(st.depth) - 2))>>)
\* generateContinue
generateContinue(st, decl) ==
    Out(st, <<I("br", signedLEB128(Len(st.depth) - getNearestLoop(st.depth) - 3))>>)

\* generateTry: the block under 'try', the handler's body under 'catch'
generateTry(st, decl) ==
    IF "finalizer" \in DOMAIN decl THEN todo(st)
    ELSE The({IF b.err THEN b
              ELSE IF "handler" \notin DOMAIN decl
                   THEN [b EXCEPT !.depth = Pop(@, 1),
                                  !.out = <<B("try", "void")>> \o b.out \o <<I("end", 0)>>]
              ELSE The({IF h.err THEN h
                        ELSE [h EXCEPT !.depth = Pop(@, 1),
                                       !.out = <<B("try", "void")>> \o b.out
                                                 \o <<I("catch_all", 0)>> \o h.out
                                                 \o <<I("end", 0)>>] :
                          h \in {generate([b EXCEPT !.depth = Append(Pop(@, 1), "catch")],
                                          decl.handler.body, Undeclared)}}) :
                b \in {generate([st EXCEPT !.depth = Append(@, "try")], decl.block, Undeclared)}})

\* generateVar for one declarator whose init, if any, is not a function
generateVar(st, decl) ==
    LET x == decl.declarations[1]
        name == mapName(x.id.name)
        global == st.scope.name = "main" \/ "_bare" \in DOMAIN decl
        a == StAllocVar(st, name, global)
        idx == IF global THEN a.globals[name].idx ELSE a.scope.locals[name].idx
    IN IF "init" \notin DOMAIN x THEN Out(a, <<>>)
       ELSE The({IF r.err THEN r
                 ELSE Out(r, r.out \o <<I(IF global THEN "global_set" ELSE "local_set", idx)>>
                                   \o setType(r, name, getNodeType(r, x.init))) :
                   r \in {generate(a, x.init, name)}})

\* lookupName: [found, local (the binding), isGlobal]
lookupName(st, rawName) ==
    LET name == mapName(rawName)
    IN IF Has(st.scope.locals, name)
       THEN [found |-> TRUE, local |-> st.scope.locals[name], isGlobal |-> FALSE]
       ELSE IF Has(st.globals, name)
            THEN [found |-> TRUE, local |-> st.globals[name], isGlobal |-> TRUE]
       ELSE [found |-> FALSE]

\* generateForOf: the tail of an arm of the type switch after the element is
\* loaded, with the size of an element
ForOfTail(body, pointer, counter, length, size) ==
    <<B("block", "void"), B("block", "void")>> \o body \o <<I("end", 0)>>
      \o <<I("local_get", pointer)>> \o Number(size, I32)
      \o <<I("i32_add", 0), I("local_set", pointer)>>
      \o <<I("local_get", counter)>> \o Number(1, I32)
      \o <<I("i32_add", 0), I("local_tee", counter)>>
      \o <<I("local_get", length), I("i32_ne", 0), I("br_if", 1)>>
      \o <<I("end", 0), I("end", 0)>>
\* generateForOf: the type switch over the arms built, with the temporary of
\* the chain of ifs when the type is not known
ForOfSwitch(st, type, bc) ==
    IF knownType(type) # NoKnownType THEN Out(st, typeSwitchKnown(type, bc))
    ELSE Out(StLocalTmp(st, "#typeswitch_tmp", I32),
             typeSwitch(LocalTmpIdx(st.scope.locals, st.scope.localInd, "#typeswitch_tmp"),
                        type, bc, "void", FALSE))
\* generateForOf
generateForOf(st, decl) ==
    LET s1 == StLocalTmp(StLocalTmp(StLocalTmp(st, "forof_base_pointer", I32),
                                    "forof_length", I32), "forof_counter", I32)
        pointer == s1.scope.locals["forof_base_pointer"].idx
        length == s1.scope.locals["forof_length"].idx
        counter == s1.scope.locals["forof_counter"].idx
        leftName == decl.left.declarations[1].id.name
    IN The({IF r.err THEN r
      ELSE The({IF l.err THEN l
       ELSE IF ~lookupName(l, leftName).found THEN crash(l)
       ELSE The({IF n.err THEN n
        ELSE The({IF b1.err THEN b1
         ELSE The({IF b2.err THEN b2
          ELSE The({IF d.err THEN d
                    ELSE LET lk == lookupName(l, leftName)
                             set == I(IF lk.isGlobal THEN "global_set" ELSE "local_set",
                                      lk.local.idx)
                             newPointer == IF l.hasString THEN n.arrays[leftName] ELSE -1
                             bc == [arms |->
                                      Put(Put(EmptyMap, TYPES._array,
                                        setType(n, leftName, Number(TYPES.number, I32))
                                          \o <<B("loop", "void"), I("local_get", pointer),
                                               I(valtypeBinary \o "_load", 4), set>>
                                          \o ForOfTail(b1.out, pointer, counter, length, 8)),
                                        TYPES.string,
                                        setType(b1, leftName, Number(TYPES.string, I32))
                                          \o <<B("loop", "void")>> \o n.out \o <<I("drop", 0)>>
                                          \o Number(0, I32)
                                          \o <<I("local_get", pointer), I("i32_load16_u", 4),
                                               I("i32_store16", newPointer + 4)>>
                                          \o Number(newPointer, valtypeBinary) \o <<set>>
                                          \o ForOfTail(b2.out, pointer, counter, length, 2)),
                                    default |-> d.out]
                             sw == ForOfSwitch(d, getNodeType(n, decl.right), bc)
                         IN [sw EXCEPT
                               !.depth = Pop(@, 3),
                               !.out = r.out \o <<OpI32ToU(valtypeBinary),
                                                  I("local_set", pointer)>>
                                         \o Number(0, I32) \o <<I("local_set", counter)>>
                                         \o <<I("local_get", pointer), I("i32_load", 0),
                                              I("local_set", length)>>
                                         \o sw.out] :
                      d \in {internalThrow(b2, "TypeError",
                                           "Tried for..of on non-iterable type", FALSE)}}) :
            b2 \in {generate(b1, decl.body, Undeclared)}}) :
           b1 \in {generate(n, decl.body, Undeclared)}}) :
          n \in {IF l.hasString THEN StMakeArray(l, leftName, "i16", <<0>>, TRUE)
                 ELSE Out(l, Number(0, "f64"))}}) :
         l \in {[generate([r EXCEPT !.depth = Append(@, "forof")], decl.left, Undeclared)
                   EXCEPT !.depth = @ \o <<"block", "block">>]}}) :
        r \in {generate(s1, decl.right, Undeclared)}})

\* performLogicOp
performLogicOp(st, op, lhs, rhs, leftType, rightType) ==
    LET canInt == LastIsIntOp(lhs) /\ LastIsIntOp(rhs)
        name == IF canInt THEN "logictmpi" ELSE "logictmp"
        s1 == StLocalTmp(st, name, IF canInt THEN I32 ELSE valtypeBinary)
        s2 == StLocalTmp(s1, LogicInnerTmp(canInt), LogicInnerType(canInt, valtypeBinary))
        s3 == IF knownType(leftType) # NoKnownType THEN s2
              ELSE StLocalTmp(s2, "#typeswitch_tmp", I32)
        s4 == StLocalTmp(s3, "#last_type", I32)
        tmp == s4.scope.locals[name].idx
        lastType == s4.scope.locals["#last_type"].idx
    IN IF op \notin {"||", "&&", "??"} THEN todo(st)
       ELSE Out(s4,
              (IF canInt THEN SubSeq(lhs, 1, Len(lhs) - 1) ELSE lhs)
                \o <<I("local_tee", tmp)>>
                \o LogicCheck(op, s4.scope.locals[LogicInnerTmp(canInt)].idx,
                              LocalTmpIdx(s4.scope.locals, 0, "#typeswitch_tmp"),
                              leftType, canInt, valtypeBinary)
                \o <<B("if", IF canInt THEN I32 ELSE valtypeBinary)>>
                \o (IF canInt THEN SubSeq(rhs, 1, Len(rhs) - 1) ELSE rhs)
                \o rightType \o <<I("local_set", lastType), I("else", 0), I("local_get", tmp)>>
                \o leftType \o <<I("local_set", lastType), I("end", 0)>>
                \o (IF canInt THEN <<OpI32From(valtypeBinary)>> ELSE <<>>))

\* operatorOpcode[valtype][op] for the arithmetic operators of f64
ArithmeticOps == ("+" :> "f64_add") @@ ("-" :> "f64_sub") @@ ("*" :> "f64_mul")
                   @@ ("/" :> "f64_div")
\* performOp for the logical operators and + - * /
performOp(st, op, lhs, rhs, leftType, rightType) ==
    IF op \in {"||", "&&", "??"} THEN performLogicOp(st, op, lhs, rhs, leftType, rightType)
    ELSE IF op \in DOMAIN ArithmeticOps THEN Out(st, lhs \o rhs \o <<I(ArithmeticOps[op], 0)>>)
    ELSE todo(st)

\* decl.operator.slice(0, -1) || '='
AssignOp(operator) ==
    (("=" :> "=") @@ ("+=" :> "+") @@ ("-=" :> "-") @@ ("*=" :> "*") @@ ("/=" :> "/")
       @@ ("||=" :> "||") @@ ("&&=" :> "&&") @@ ("??=" :> "??"))[operator]

\* generateAssign, lines 1919-1942: the .length setter
AssignLength(st, decl) ==
    LET name == NameOf(decl.left.object)
        aotPointer == Has(st.arrays, name)
        s1 == StLocalTmp(st, "__length_setter_tmp", valtypeBinary)
        newValueTmp == s1.scope.locals["__length_setter_tmp"].idx
    IN The({IF o.err THEN o
            ELSE The({IF r.err THEN r
                      ELSE Out(r, o.out \o r.out
                                    \o <<I("local_tee", newValueTmp), OpI32ToU(valtypeBinary),
                                         I("i32_store", IF aotPointer THEN st.arrays[name] ELSE 0),
                                         I("local_get", newValueTmp)>>) :
                        r \in {generate(o, decl.right, Undeclared)}}) :
              o \in {IF aotPointer THEN Out(s1, Number(0, I32))
                     ELSE The({IF g.err THEN g ELSE Out(g, g.out \o <<OpI32ToU(valtypeBinary)>>) :
                                 g \in {generate(s1, decl.left.object, Undeclared)}})}})

\* generateAssign, lines 1946-2003: arr[i] = v and arr[i] op= v
AssignMember(st, decl) ==
    LET op == AssignOp(decl.operator)
        name == NameOf(decl.left.object)
        aotPointer == Has(st.arrays, name)
        offset == (IF aotPointer THEN st.arrays[name] ELSE 0) + 4
        s1 == StLocalTmp(st, "__member_setter_val_tmp", valtypeBinary)
        s2 == IF op = "=" THEN s1 ELSE StLocalTmp(s1, "__member_setter_ptr_tmp", I32)
        newValueTmp == s2.scope.locals["__member_setter_val_tmp"].idx
        pointerTmp == IF op = "=" THEN -1 ELSE s2.scope.locals["__member_setter_ptr_tmp"].idx
        type == getNodeType(s2, decl.left.object)
    IN The({IF o.err THEN o
      ELSE The({IF i.err THEN i
       ELSE The({IF r.err THEN r
        ELSE The({IF v.err THEN v
         ELSE The({IF d.err THEN d
                   ELSE LET arm == o.out \o i.out
                                     \o <<OpI32ToU(valtypeBinary)>> \o Number(8, I32)
                                     \o <<I("i32_mul", 0)>>
                                     \o (IF aotPointer THEN <<>> ELSE <<I("i32_add", 0)>>)
                                     \o (IF op = "=" THEN <<>>
                                         ELSE <<I("local_tee", pointerTmp)>>)
                                     \o v.out
                                     \o <<I("local_tee", newValueTmp),
                                          I(valtypeBinary \o "_store", offset)>>
                            sw == ForOfSwitch(d, type,
                                      [arms |-> Put(EmptyMap, TYPES._array, arm),
                                       default |-> d.out])
                        IN Out(sw, sw.out \o <<I("local_get", newValueTmp)>>) :
                     d \in {internalThrow(v, "TypeError", "Cannot assign member with non-array",
                                          FALSE)}}) :
           v \in {IF op = "=" THEN r
                  ELSE performOp(r, op,
                                 <<I("local_get", pointerTmp), I(valtypeBinary \o "_load", offset)>>,
                                 r.out, Number(TYPES.number, I32), getNodeType(r, decl.right))}}) :
          r \in {generate(i, decl.right, Undeclared)}}) :
         i \in {generate(o, decl.left.property, Undeclared)}}) :
        o \in {IF aotPointer THEN Out(s2, <<>>)
               ELSE The({IF g.err THEN g ELSE Out(g, g.out \o <<OpI32ToU(valtypeBinary)>>) :
                           g \in {generate(s2, decl.left.object, Undeclared)}})}})

\* generateAssign
generateAssign(st, decl) ==
    LET name == NameOf(decl.left)
        op == AssignOp(decl.operator)
        l == lookupName(st, name)
        set == IF l.isGlobal THEN "global_set" ELSE "local_set"
        get == IF l.isGlobal THEN "global_get" ELSE "local_get"
    IN IF decl.left.type = "ObjectPattern" THEN generate(st, decl.right, Undeclared)
       ELSE IF decl.right.type \in {"FunctionDeclaration", "ArrowFunctionExpression"}
       THEN Out(generateFunc(st, [k \in DOMAIN decl.right \cup {"id"} |->
                                    IF k = "id" THEN [name |-> name] ELSE decl.right[k]]), <<>>)
       ELSE IF decl.left.type = "MemberExpression" /\ NameOf(decl.left.property) = "length"
       THEN AssignLength(st, decl)
       ELSE IF decl.left.type = "MemberExpression" /\ decl.left.computed
       THEN AssignMember(st, decl)
       ELSE IF ~l.found
            THEN IF op # "="
                 THEN internalThrow(st, "ReferenceError", name \o " is not defined", FALSE)
                 ELSE IF name = "undefined" THEN generate(st, decl.right, Undeclared)
                 ELSE The({IF v.err THEN v
                           ELSE IF ~Has(v.globals, name) THEN crash(v)
                           ELSE Out(v, v.out \o <<I("global_get", v.globals[name].idx)>>) :
                             v \in {generateVar(st,
                                      [kind |-> "var", _bare |-> TRUE,
                                       declarations |-> <<[id |-> [name |-> name],
                                                           init |-> decl.right]>>])}})
       ELSE IF op = "="
       THEN The({IF r.err THEN r
                 ELSE Out(r, r.out \o <<I(set, l.local.idx), I(get, l.local.idx)>>
                                   \o setType(r, name, getNodeType(r, decl.right))) :
                   r \in {generate(st, decl.right, name)}})
       ELSE IF op \in {"||", "&&", "??"}
       THEN The({IF r.err THEN r
                 ELSE The({IF v.err THEN v
                           ELSE Out(v, v.out
                                         \o <<I(get, l.local.idx),
                                              I("local_get", v.scope.locals["#last_type"].idx),
                                              I(set, l.local.idx + 1)>>) :
                             v \in {performOp(r, op, <<I(get, l.local.idx)>>,
                                              r.out \o <<I(set, l.local.idx), I(get, l.local.idx)>>,
                                              getType(r, name), getNodeType(r, decl.right))}}) :
                   r \in {generate(st, decl.right, Undeclared)}})
       ELSE The({IF r.err THEN r
                 ELSE The({IF v.err THEN v
                           ELSE Out(v, v.out \o <<I(set, l.local.idx), I(get, l.local.idx)>>
                                         \o Number(TYPES.number, I32)
                                         \o <<I(set, l.local.idx + 1)>>) :
                             v \in {performOp(r, op, <<I(get, l.local.idx)>>, r.out,
                                              getType(r, name), getNodeType(r, decl.right))}}) :
                   r \in {generate(st, decl.right, Undeclared)}})

\* generateUpdate
generateUpdate(st, decl) ==
    LET l == lookupName(st, decl.argument.name)
        set == IF l.isGlobal THEN "global_set" ELSE "local_set"
        get == IF l.isGlobal THEN "global_get" ELSE "local_get"
    IN IF ~l.found THEN todo(st)
       ELSE Out(st, <<I(get, l.local.idx)>>
                      \o (IF decl.prefix THEN <<>> ELSE <<I(get, l.local.idx)>>)
                      \o Number(1, valtypeBinary)
                      \o <<I(IF decl.operator = "++" THEN "f64_add" ELSE "f64_sub", 0)>>
                      \o <<I(set, l.local.idx)>>
                      \o (IF decl.prefix THEN <<I(get, l.local.idx)>> ELSE <<>>))

\* internalConstrs.Array.generate, line 2874: literalValue < 0 ||
\* !Number.isFinite(literalValue) || literalValue > 4294967295, for
\* literalValue = arg.value ?? 0
InvalidArrayLength(arg) ==
    IF "value" \notin DOMAIN arg THEN FALSE
    ELSE IF "str" \in DOMAIN arg \/ "infinite" \in DOMAIN arg THEN TRUE
    ELSE IF "high" \in DOMAIN arg
         THEN arg.high < 0 \/ arg.high > 65535 \/ (arg.high = 65535 /\ arg.value > 65535)
    ELSE arg.value < 0

\* internalConstrs.Array.generate for new Array(n) and new Array()
ArrayGenerate(st, decl, name) ==
    LET arg == IF decl.arguments = <<>> THEN DEFAULT_VALUE ELSE decl.arguments[1]
    IN The({IF InvalidArrayLength(arg)
            THEN internalThrow(made, "RangeThrow", "Invalid array length", FALSE)
            ELSE The({IF g.err THEN g
                      ELSE Out(g, Number(0, I32) \o g.out \o <<OpI32ToU(valtypeBinary)>>
                                    \o <<I("i32_store", made.arrays[name])>>
                                    \o Number(made.arrays[name], valtypeBinary)) :
                        g \in {generate(made, arg, name)}}) :
              made \in {StMakeArray(st, name, valtypeBinary, <<>>, TRUE)}})

\* generateNew: the internal constructors; no builtin function is a constructor
\* of the programs lowered here
generateNew(st, decl, name) ==
    IF mapName(decl.callee.name) = "Array" /\ Len(decl.arguments) <= 1
    THEN ArrayGenerate(st, decl, name)
    ELSE todo(st)

\* generateUnary for the operators +, - and delete
generateUnary(st, decl) ==
    CASE decl.operator = "+" -> generate(st, decl.argument, Undeclared)
      [] decl.operator = "-" ->
            IF decl.prefix /\ decl.argument.type = "Literal" /\ "str" \notin DOMAIN decl.argument
            THEN Out(st, Number(0 - decl.argument.value, valtypeBinary))
            ELSE The({IF g.err THEN g ELSE Out(g, g.out \o <<I("f64_neg", 0)>>) :
                        g \in {generate(st, decl.argument, Undeclared)}})
      [] decl.operator = "delete" ->
            IF decl.argument.type = "Identifier"
            THEN The({IF Len(probe.out) < 2
                      THEN The({IF g.err THEN g
                                ELSE Out(g, disposeLeftover(g.out, g.funcs)
                                              \o Number(0, valtypeBinary)) :
                                  g \in {generate(probe, decl.argument, Undeclared)}})
                      ELSE Out(probe, Number(1, valtypeBinary)) :
                        probe \in {generateIdent(st, decl.argument)}})
            ELSE The({IF g.err THEN g
                      ELSE Out(g, disposeLeftover(g.out, g.funcs) \o Number(1, valtypeBinary)) :
                        g \in {generate(st, decl.argument, Undeclared)}})
      [] OTHER -> todo(st)

generate(st, decl, name) ==
    IF st.err THEN st
    ELSE CASE decl.type = "Identifier" -> generateIdent(st, decl)
           [] decl.type \in {"ArrowFunctionExpression", "FunctionDeclaration"} ->
                 Out(generateFunc(st, decl), <<>>)
           [] decl.type = "BlockStatement" ->
                 generateCode([st EXCEPT !.entered = Append(@, [block |-> decl,
                                                                depth |-> st.depth])],
                              decl.body, <<>>)
           [] decl.type = "ReturnStatement" -> generateReturn(st, decl)
           [] decl.type = "ExpressionStatement" -> generateExp(st, decl)
           [] decl.type = "CallExpression" -> generateCall(st, decl, name)
           [] decl.type = "NewExpression" -> generateNew(st, decl, name)
           [] decl.type = "UnaryExpression" -> generateUnary(st, decl)
           [] decl.type = "AssignmentExpression" ->
                 The({IF r.err THEN r
                      ELSE [r EXCEPT !.assigned = Append(@, [node |-> decl, out |-> r.out])] :
                        r \in {generateAssign(st, decl)}})
           [] decl.type = "UpdateExpression" -> generateUpdate(st, decl)
           [] decl.type = "Literal" -> generateLiteral(st, decl, name)
           [] decl.type = "VariableDeclaration" -> generateVar(st, decl)
           [] decl.type = "IfStatement" -> generateIf(st, decl)
           [] decl.type = "ForStatement" -> generateFor(st, decl)
           [] decl.type = "WhileStatement" -> generateWhile(st, decl)
           [] decl.type = "ForOfStatement" -> generateForOf(st, decl)
           [] decl.type = "ConditionalExpression" -> generateConditional(st, decl)
           [] decl.type = "BreakStatement" -> generateBreak(st, decl)
           [] decl.type = "ContinueStatement" -> generateContinue(st, decl)
           [] decl.type = "TryStatement" -> generateTry(st, decl)
           [] decl.type = "ThrowStatement" -> generateThrow(st, decl)
           [] decl.type = "MemberExpression" -> generateMember(st, decl)
           [] OTHER -> todo(st)

\* generateFunc, lines 2829-2836: add end return if not found
AddEndReturn(name, wasm, fs) ==
    IF name # "main" /\ ~(wasm # <<>> /\ wasm[Len(wasm)].op = "return")
       /\ countLeftover(wasm, fs) = 0
    THEN wasm \o Number(0, valtypeBinary) \o Number(TYPES.undefined, I32) \o <<I("return", 0)>>
    ELSE wasm

\* generateFunc for distinct parameter names; the caller's scope is kept aside
\* and is the current scope again afterwards.  objectHack leaves the bodies
\* lowered here as they are: their member accesses are computed or on a
\* literal, and a rewritten access is written as the identifier it becomes.
generateFunc(st, decl) ==
    LET anonymous == "id" \notin DOMAIN decl
        name == IF anonymous THEN "anonymous_" \o Head(st.rnd) ELSE decl.id.name
        params == decl.params
        p == allocParams([st EXCEPT !.rnd = IF anonymous THEN Tail(@) ELSE @,
                                    !.scope = NewScope(name)], params)
        body == IF decl.type = "ArrowFunctionExpression" /\ decl.expression
                THEN ReturnStatement(decl.body) ELSE decl.body
    IN The({IF b.err THEN b
            ELSE [b EXCEPT
                    !.currentFuncIndex = @ + 1,
                    !.funcIndex = Put(@, name, b.currentFuncIndex),
                    !.funcs = Append(@,
                        [name |-> name, params |-> ParamTypes(Len(params)),
                         returns |-> <<valtypeBinary, I32>>,
                         locals |-> b.scope.locals, throws |-> b.scope.throws,
                         index |-> b.currentFuncIndex,
                         wasm |-> AddEndReturn(name, Patch(b.out, b.currentFuncIndex), b.funcs),
                         export |-> FALSE]),
                    !.scope = st.scope] :
              b \in {generate(p, body, Undeclared)}})

\* default export, lines 2979-3001: main is exported and its tail fixed up
\* (no other function is exported, so a blank main stays in the table)
FinalizeMain(st, program) ==
    LET n == Len(st.funcs)
        main == st.funcs[n]
        lastInst == IF main.wasm = <<>> THEN I("end", 0) ELSE main.wasm[Len(main.wasm)]
        stmts == program.body.body
        asScope == [st EXCEPT !.scope = [locals |-> main.locals, localInd |-> 0,
                                         throws |-> main.throws, name |-> main.name]]
        wasm == IF lastInst.op = "drop"
                THEN SubSeq(main.wasm, 1, Len(main.wasm) - 1)
                       \o getNodeType(asScope, stmts[Len(stmts)])
                ELSE main.wasm
        returns == IF lastInst.op \in {"end", "local_set", "global_set"} THEN <<>>
                   ELSE IF lastInst.op = "call"
                        THEN IF HasFunc(st.funcs, lastInst.imm)
                             THEN FindFunc(st.funcs, lastInst.imm).returns ELSE <<>>
                   ELSE <<valtypeBinary, I32>>
    IN [st EXCEPT !.funcs[n] = [main EXCEPT !.export = TRUE, !.returns = returns, !.wasm = wasm]]

\* default export after the reset: lower the program as function main, then
\* finalize main; a TodoError leaves the registers as they were when thrown.
\* entered and assigned are the history of the lowering: every block generate
\* was called on, with the depth stack at that call, and every assignment it
\* was called on, with the code it returned
Compile(regs, program, rnd) ==
    The({IF f.err THEN f ELSE FinalizeMain(f, program) :
           f \in {generateFunc(
                    [globals |-> regs.globals, globalInd |-> regs.globalInd, tags |-> regs.tags,
                     exceptions |-> regs.exceptions, funcs |-> regs.funcs,
                     funcIndex |-> regs.funcIndex, depth |-> regs.depth, arrays |-> regs.arrays,
                     pages |-> regs.pages, hasArray |-> regs.hasArray,
                     hasString |-> regs.hasString, data |-> regs.data,
                     currentFuncIndex |-> regs.currentFuncIndex,
                     scope |-> NewScope(""), rnd |-> rnd, err |-> FALSE, out |-> <<>>,
                     entered |-> <<>>, assigned |-> <<>>],
                    program)}})

(***************************************************************************)
(* The default export as two steps: the reset, then the lowering           *)
(***************************************************************************)
Registers ==
    [globals |-> globals, globalInd |-> globalInd, tags |-> tags, exceptions |-> exceptions,
     funcs |-> funcs, funcIndex |-> funcIndex, depth |-> depth, arrays |-> arrays,
     pages |-> pages, hasArray |-> hasArray, hasString |-> hasString, data |-> data,
     currentFuncIndex |-> currentFuncIndex]

\* the registers r holds become the registers of the next state
SetRegisters(r) ==
    /\ globals' = r.globals
    /\ globalInd' = r.globalInd
    /\ tags' = r.tags
    /\ exceptions' = r.exceptions
    /\ funcs' = r.funcs
    /\ funcIndex' = r.funcIndex
    /\ depth' = r.depth
    /\ arrays' = r.arrays
    /\ pages' = r.pages
    /\ hasArray' = r.hasArray
    /\ hasString' = r.hasString
    /\ data' = r.data
    /\ currentFuncIndex' = r.currentFuncIndex

\* what the default export returns, line 3006
CompilationRecord ==
    [funcs |-> funcs, globals |-> globals, tags |-> tags, exceptions |-> exceptions,
     pages |-> pages, data |-> data]

NoPrev == [valid |-> FALSE, record |-> <<>>]
NoLeft == [aborted |-> FALSE, dirty |-> {}]
\* the registers that are not as the module loads them
Dirty ==
    {k \in {"globals", "funcIndex", "arrays", "pages"} : DOMAIN Registers[k] # {}}
    \cup {k \in {"tags", "exceptions", "funcs", "depth", "data"} : Len(Registers[k]) # 0}
    \cup {k \in {"hasArray", "hasString"} : Registers[k]}
    \cup {k \in {"globalInd"} : globalInd # 0}
    \cup {k \in {"currentFuncIndex"} : currentFuncIndex # importedFuncsLength}

\* default export, lines 2917-2928: a compilation starts, whatever the last one left
StartCompile(p) ==
    /\ phase \in {"idle", "done", "aborted"}
    /\ SetRegisters(Reset(Registers))
    /\ programIn' = p
    /\ phase' = "reset"
    /\ prevRun' = IF phase = "done" /\ p = programIn
               THEN [valid |-> TRUE, record |-> CompilationRecord] ELSE NoPrev
    /\ left' = [aborted |-> phase = "aborted", dirty |-> Dirty]
    /\ UNCHANGED <<locals, localInd, created, hackVars, truthyVars, execVars>>

\* the most Math.random calls one compilation makes
MaxDraws == MaxStmts + 2
\* how many Math.random calls lowering the program makes
Draws(regs, p) ==
    MaxDraws - Len(Compile(regs, p, [i \in 1..MaxDraws |-> "1"]).rnd)

\* default export, lines 2967-3006, with the outcomes of Math.random
Lower ==
    /\ phase = "reset"
    /\ \E n \in {Draws(Registers, programIn)} :
       \E rnd \in [1..n -> RandIds] :
       \E r \in {Compile(Registers, programIn,
                         [i \in 1..(n + 1) |-> IF i <= n THEN rnd[i] ELSE "1"])} :
          /\ SetRegisters(r)
          /\ phase' = IF r.err THEN "aborted" ELSE "done"
    /\ left' = NoLeft
    /\ UNCHANGED <<programIn, prevRun, locals, localInd, created, hackVars, truthyVars, execVars>>

(***************************************************************************)
(* Initial states                                                          *)
(***************************************************************************)
TruthyInit ==
    /\ tIn = [vt |-> valtypeBinary, type |-> Number(TYPES.number, I32), intIn |-> FALSE,
              intOut |-> FALSE, wasm |-> <<>>, x |-> NoValue, mem |-> <<>>]
    /\ tOut = NoValue
    /\ fOut = NoValue

\* the module as loaded, before the first compilation
\* nothing runs
Idle == [pc |-> "idle"]
ExecInit == machine = Idle

GenInit ==
    /\ funcs = <<>>
    /\ funcIndex = EmptyMap
    /\ currentFuncIndex = importedFuncsLength
    /\ tags = <<>>
    /\ exceptions = <<>>
    /\ depth = <<>>
    /\ programIn = Program(<<>>)
    /\ phase = "idle"
    /\ prevRun = NoPrev
    /\ left = NoLeft

HackInit ==
    /\ hackIn = Literal
    /\ ast = Literal
    /\ hackRuns = 0

ScopeInit ==
    /\ locals = EmptyMap
    /\ localInd = 0
    /\ globals = EmptyMap
    /\ globalInd = 0
    /\ created = {}

PageInit ==
    /\ pages = EmptyMap
    /\ hasArray = FALSE
    /\ hasString = FALSE
    /\ arrays = EmptyMap
    /\ data = <<>>

Init == ScopeInit /\ PageInit /\ HackInit /\ TruthyInit /\ GenInit /\ ExecInit

(***************************************************************************)
(* SpecScope: slot allocation in one scope and in the global table         *)
(***************************************************************************)
NextScope ==
    \/ \E name \in UserNames, global \in BOOLEAN : AllocVar(name, global)
    \/ \E name \in TmpNames : LocalTmp(name, TmpType(name))
    \/ \E name \in AsmNames, idx \in 0..MaxAsmIdx : AsmLocal(name, idx, I32)

SpecScope == Init /\ [][NextScope]_vars

IsTypeKey(k) == k \in {TypeKey(n) : n \in UserNames \cup TmpNames \cup AsmNames}
Paired(target, name) ==
    /\ Has(target, name)
    /\ Has(target, TypeKey(name))
    /\ target[TypeKey(name)].idx = target[name].idx + 1

\* C1 (as claimed): every binding of scope.locals and of globals that is not itself
\* a type-tag sibling has a sibling name#type at its slot index plus one.
C1_SlotPairingAll ==
    /\ \A name \in DOMAIN locals : IsTypeKey(name) \/ Paired(locals, name)
    /\ \A name \in DOMAIN globals : IsTypeKey(name) \/ Paired(globals, name)

\* C1 (amended): every binding that allocVar created for a name not bound before,
\* and that no asm local directive has rebound, has its sibling name#type at its
\* slot index plus one.
C1_CreatedPaired ==
    \A c \in created :
        Paired(IF c[1] = "global" THEN globals ELSE locals, c[2])

\* C1 witness: allocVar created a local and a global pair next to a temporary and
\* an asm-bound local that have no sibling.
C1_Witness ==
    /\ <<"local", "y">> \in created
    /\ <<"global", "x">> \in created
    /\ Has(locals, "#last_type") /\ ~Has(locals, TypeKey("#last_type"))
    /\ Has(locals, "r")
    /\ locals["y"].idx > 0

\* a localTmp request for a name that is bound leaves the scope as it is: the
\* index it returns is the one the name has
RepeatedRequestMemoized ==
    \A name \in TmpNames :
        (Has(locals, name) /\ LocalTmp(name, TmpType(name))) =>
            (localInd' = localInd /\ locals' = locals)
\* the slots of the names of S are below localInd and differ from each other
SlotsApart(S) ==
    /\ \A n \in S : locals[n].idx < localInd
    /\ \A n, m \in S : n # m => locals[n].idx # locals[m].idx

\* C26 as stated: a repeated localTmp request leaves localInd alone, and after
\* any sequence of allocVar, localTmp and asm local directives every slot of
\* scope.locals is below localInd and no two names share a slot.
C26_NeverAlias == [][RepeatedRequestMemoized]_vars /\ [](SlotsApart(DOMAIN locals))

\* C26: a repeated localTmp request returns the index the name has and leaves
\* localInd alone; the slots that allocVar and localTmp gave to names no asm
\* local directive binds are below localInd and differ from each other.  An
\* asm local directive binds the index it is given, which may be another
\* name's slot or a slot at or above localInd.
C26_AllocatedSlotsApart ==
    [][RepeatedRequestMemoized]_vars /\ [](SlotsApart(DOMAIN locals \ AsmNames))

\* two temporaries and a variable hold slots of their own, and an asm directive
\* bound r to the slot of one of them
C26_Witness ==
    /\ Has(locals, "logictmp") /\ Has(locals, "#last_type") /\ Has(locals, "y")
    /\ Has(locals, "r") /\ locals["r"].idx = locals["#last_type"].idx
    /\ localInd = MaxSlots

(***************************************************************************)
(* SpecPages: the page allocator within and across compilations            *)
(***************************************************************************)
NextPages ==
    \/ AllocPage(AsmReason, "undefined")
    \/ \E reason \in Reasons : FreePage(reason)
    \/ \E name \in ArrayNames \cup {Undeclared}, itemType \in {"i16", "f64"},
          initEmpty \in BOOLEAN, rand \in RandIds :
          MakeArray(name, itemType, <<97>>, initEmpty, rand)
    \/ ResetPages

SpecPages == Init /\ [][NextPages]_vars

\* C2: no two reasons present in the pages map have the same page index.
C2_PageIndicesUnique ==
    \A r1, r2 \in DOMAIN pages : r1 # r2 => pages[r1].ind # pages[r2].ind

\* C3: pages.hasArray is true iff the pages map holds an array page, and
\* pages.hasString is true iff it holds a string page.
C3_FlagsIffPages ==
    /\ hasArray <=> (\E r \in DOMAIN pages : IsArrayReason(r))
    /\ hasString <=> (\E r \in DOMAIN pages : IsStringReason(r))

(***************************************************************************)
(* SpecHack: objectHack applied to a tree, and again to its result         *)
(***************************************************************************)
InitHack ==
    /\ ScopeInit /\ PageInit /\ TruthyInit /\ GenInit /\ ExecInit
    /\ hackIn \in Trees
    /\ ast = hackIn
    /\ hackRuns = 0

NextHack == ObjectHack

SpecHack == InitHack /\ [][NextHack]_vars

\* C9: objectHack is idempotent: applied to a tree it returned, it returns the
\* same tree.
C9_Idempotent ==
    [][(hackRuns >= 1 /\ ast' # HackTypeError) => ast' = ast]_vars

\* C9 witness: a second application has run on a tree the first one rewrote.
C9_Witness ==
    /\ hackRuns = 2
    /\ ast # hackIn
    /\ ast # HackTypeError
    /\ hackIn.type = "CallExpression"
    /\ hackIn.callee.type = "MemberExpression"
    /\ hackIn.callee.object.type = "MemberExpression"

\* a member access the rewrite is for: neither computed nor optional, on an
\* identifier or a member chain, of a property other than length
Rewritable(node) ==
    /\ node.type = "MemberExpression"
    /\ ~node.computed /\ ~node.optional
    /\ node.object.type \in {"Identifier", "MemberExpression"}
    /\ NameOf(node.property) # <<"length">>
RECURSIVE HasRewritable(_)
\* some node of the tree is such a member access
HasRewritable(node) ==
    \/ Rewritable(node)
    \/ node.type = "MemberExpression" /\ HasRewritable(node.object)
    \/ node.type = "CallExpression"
          /\ (HasRewritable(node.callee)
               \/ \E i \in 1..Len(node.arguments) : HasRewritable(node.arguments[i]))

\* C24: objectHack returns a tree for every input, and in that tree no
\* non-computed, non-optional member access on an identifier or a member chain
\* with a property other than length is left, at any position.
C24_AllRewritten ==
    hackRuns >= 1 => (ast # HackTypeError /\ ~HasRewritable(ast))

(***************************************************************************)
(* truthy and falsy on a statically known type                             *)
(***************************************************************************)
Valtypes == {"i32", "i64", "f64"}
Pointers == 0..MaxPayload
ZeroMem == [p \in Pointers |-> 0]
Mems == [Pointers -> 0..MaxStrLen]
\* the payloads of a valtype: every integer, and for f64 also halves and NaN
Payloads(vt) ==
    IF vt = "f64"
    THEN {F64(h) : h \in (0 - 2 * MaxPayload)..(2 * MaxPayload)} \cup {NaN}
    ELSE {IntVal(vt, n) : n \in (0 - MaxPayload)..MaxPayload}
\* a pointer held in a payload of the valtype
PointerPayload(vt, p) == IF vt = "f64" THEN F64(2 * p) ELSE IntVal(vt, p)
PointerTypes == {TYPES.string, TYPES._array}

\* wasm that pushes the payload held in slot 0
PlainWasm == <<I("local_get", 0)>>
\* wasm ending in an int -> f64 conversion, as comparisons and .length emit;
\* the expressions lowered that way are typed number or boolean
IntTailWasm == <<I("local_get", 0), I("f64_convert_i32_u", 0)>>
IntTailTypes == {TYPES.number, TYPES.boolean}

TruthyInput(vt, tag, intIn, intOut, wasm, x, mem) ==
    [vt |-> vt, type |-> Number(tag, I32), intIn |-> intIn, intOut |-> intOut,
     wasm |-> wasm, x |-> x, mem |-> mem]

TruthyInputs ==
    {TruthyInput(vt, tag, intIn, intOut, PlainWasm, x, ZeroMem) :
        vt \in Valtypes, tag \in TypeTags \ PointerTypes, intIn \in BOOLEAN, intOut \in BOOLEAN,
        x \in Payloads("f64") \cup Payloads("i32") \cup Payloads("i64")}
    \cup {TruthyInput(vt, tag, intIn, intOut, PlainWasm, x, mem) :
        vt \in Valtypes, tag \in PointerTypes, intIn \in BOOLEAN, intOut \in BOOLEAN,
        x \in {PointerPayload("f64", p) : p \in Pointers} \cup {IntVal("i32", p) : p \in Pointers}
               \cup {IntVal("i64", p) : p \in Pointers},
        mem \in Mems}
    \cup {TruthyInput("f64", tag, FALSE, intOut, IntTailWasm, IntVal("i32", n), ZeroMem) :
        tag \in IntTailTypes, intOut \in BOOLEAN, n \in 0..MaxPayload}

\* the payload is a value of the type the wasm produces
WellTyped(in) ==
    \/ in.wasm = IntTailWasm
    \/ in.wasm = PlainWasm /\ in.x.ty = (IF in.intIn THEN I32 ELSE in.vt)

InitTruthy ==
    /\ PageInit /\ HackInit /\ GenInit /\ ExecInit
    /\ locals = AllocPair(EmptyMap, 0, "x")
    /\ localInd = 2
    /\ globals = EmptyMap
    /\ globalInd = 0
    /\ created = {<<"local", "x">>}
    /\ tIn \in {in \in TruthyInputs : WellTyped(in)}
    /\ tOut = NoValue
    /\ fOut = NoValue

NextTruthy ==
    \/ RunTruthy
    \/ RunFalsy

SpecTruthy == InitTruthy /\ [][NextTruthy]_vars

\* C10: for a statically known type tag and any payload of that type, the
\* results of the code emitted by truthy and by falsy are never both non-zero.
C10_NeverBothNonZero ==
    (tOut # NoValue /\ fOut # NoValue) => ~(NonZero(tOut) /\ NonZero(fOut))

\* an empty string run through both: truthy gives 0 and falsy gives 1
C10_Witness ==
    /\ tOut # NoValue /\ fOut # NoValue
    /\ knownType(tIn.type) = TYPES.string
    /\ tIn.mem[1] = 0 /\ tIn.mem[2] = 1
    /\ tIn.x = PointerPayload(tIn.vt, 1)
    /\ ~NonZero(tOut) /\ NonZero(fOut)
(***************************************************************************)
(* Compilations of small programs                                          *)
(***************************************************************************)
SelfCall == Call(Ident("f"), <<>>)
Unindexable == Member(NumLit(1), NumLit(0), TRUE, FALSE)
ThrowError == ThrowStatement(NewExpression("Error", "e"))
\* function f without parameters, and with parameter a
Bodies ==
    {<<>>, <<ExpressionStatement(SelfCall), ExpressionStatement(SelfCall)>>}
    \cup {<<s>> : s \in {BareReturn, ReturnStatement(NumLit(1)), ReturnStatement(SelfCall),
                         ReturnStatement(ArrowFunctionExpression(NumLit(0))),
                         ExpressionStatement(Unindexable), ThrowError}}
BodiesWithParam == {<<ReturnStatement(Ident("a"))>>, <<ReturnStatement(SelfCall)>>}
FunctionDeclarations ==
    {FunctionDeclaration("f", <<>>, body) : body \in Bodies}
    \cup {FunctionDeclaration("f", <<"a">>, body) : body \in BodiesWithParam}
\* if (1) { let a = 'a'; class ... } : lowering stops inside the block
IfAbort ==
    IfStatement(NumLit(1),
        BlockStatement(<<VariableDeclaration("a", StrLit(<<97>>)), ClassDeclaration>>))
\* top-level statements
Statements ==
    {ExpressionStatement(NumLit(1)), ExpressionStatement(StrLit(<<97>>)),
     ExpressionStatement(SelfCall), ExpressionStatement(Unindexable),
     ExpressionStatement(ArrowFunctionExpression(NumLit(0))), IfAbort}
RECURSIVE StatementLists(_)
StatementLists(n) ==
    IF n = 0 THEN {<<>>}
    ELSE StatementLists(n - 1)
           \cup {<<s>> \o l : s \in Statements, l \in {x \in StatementLists(n - 1) : Len(x) = n - 1}}
Programs ==
    {Program(l) : l \in StatementLists(MaxStmts)}
    \cup {Program(<<fd>> \o l) : fd \in FunctionDeclarations, l \in StatementLists(MaxStmts)}

NextGen ==
    \/ \E p \in Programs : StartCompile(p)
    \/ Lower

SpecGen == Init /\ [][NextGen]_vars

IsPlaceholder(inst) == inst.op = "call" /\ inst.imm = -1

\* C4: no function record in the function table holds a (call, -1) instruction;
\* the self-call placeholders of its body are calls of its own index.
C4_NoPlaceholderLeft ==
    \A i \in 1..Len(funcs) : \A k \in 1..Len(funcs[i].wasm) : ~IsPlaceholder(funcs[i].wasm[k])

\* function f() { f(); f() } was lowered: both placeholders are calls of f's index
C4_Witness ==
    /\ phase = "done"
    /\ \E i \in 1..Len(funcs) :
          /\ funcs[i].name = "f"
          /\ Cardinality({k \in 1..Len(funcs[i].wasm) :
                             funcs[i].wasm[k] = I("call", funcs[i].index)}) = 2

\* the valtype of the local or global in slot idx (i32 when no binding names it)
SlotType(m, idx) ==
    IF \E n \in DOMAIN m : m[n].idx = idx
    THEN m[CHOOSE n \in DOMAIN m : m[n].idx = idx].type ELSE I32
PopN(stack, n) == IF Len(stack) <= n THEN <<>> ELSE SubSeq(stack, 1, Len(stack) - n)
\* the valtypes on the operand stack after inst, within the innermost block;
\* acc = [stack, outer (the stacks of the enclosing blocks), ok], and ok turns
\* false at a return that does not find exactly a payload and an i32 on the stack
StackInst(acc, inst, func, fs, gl) ==
    LET stack == acc.stack
        to(new) == [acc EXCEPT !.stack = new]
    IN CASE inst.op = "f64_const" -> to(Append(stack, "f64"))
         [] inst.op = "i32_const" -> to(Append(stack, I32))
         [] inst.op = "local_get" -> to(Append(stack, SlotType(func.locals, inst.imm)))
         [] inst.op = "global_get" -> to(Append(stack, SlotType(gl, inst.imm)))
         [] inst.op \in {"local_set", "global_set", "drop"} -> to(PopN(stack, 1))
         [] inst.op \in {"i32_trunc_sat_f64_u", "i32_load", "i32_eqz"} ->
                to(Append(PopN(stack, 1), I32))
         [] inst.op = "f64_convert_i32_u" -> to(Append(PopN(stack, 1), "f64"))
         [] inst.op = "f64_eq" -> to(Append(PopN(stack, 2), I32))
         [] inst.op \in {"i32_store", "i32_store16"} -> to(PopN(stack, 2))
         [] inst.op = "call" ->
                IF HasFunc(fs, inst.imm)
                THEN to(PopN(stack, Len(FindFunc(fs, inst.imm).params))
                          \o FindFunc(fs, inst.imm).returns)
                ELSE to(PopN(stack, 1))
         [] inst.op = "if" ->
                [acc EXCEPT !.stack = <<>>, !.outer = Append(@, PopN(stack, 1))]
         [] inst.op = "end" ->
                IF acc.outer = <<>> THEN acc
                ELSE [acc EXCEPT !.stack = acc.outer[Len(acc.outer)],
                                 !.outer = SubSeq(@, 1, Len(@) - 1)]
         [] inst.op = "return" ->
                [acc EXCEPT !.stack = <<>>, !.ok = @ /\ stack = <<valtypeBinary, I32>>]
         [] inst.op \in {"throw", "unreachable"} -> to(<<>>)
         [] OTHER -> acc

RECURSIVE ReturnsPairedFrom(_, _, _, _, _)
ReturnsPairedFrom(acc, wasm, func, fs, gl) ==
    IF wasm = <<>> THEN acc.ok
    ELSE ReturnsPairedFrom(StackInst(acc, Head(wasm), func, fs, gl), Tail(wasm), func, fs, gl)

\* C5: in every function of the table, every return instruction finds exactly
\* one payload value and, above it, exactly one i32 type tag pushed by the code
\* before it.
C5_ReturnsPaired ==
    \A i \in 1..Len(funcs) :
        ReturnsPairedFrom([stack |-> <<>>, outer |-> <<>>, ok |-> TRUE],
                          funcs[i].wasm, funcs[i], funcs, globals)

\* C6: for every function of the table of a finished compilation, countLeftover
\* of its final wasm is 0 or 2.
C6_LeftoverZeroOrTwo ==
    phase = "done" =>
        \A i \in 1..Len(funcs) : countLeftover(funcs[i].wasm, funcs) \in {0, 2}

\* C7: when the program just compiled is the one compiled before it, the two
\* compilation records are equal: functions (names, indices, wasm), globals,
\* tags, exceptions, pages (reasons, indices) and data.
C7_SameRecordTwice ==
    (phase = "done" /\ prevRun.valid) => CompilationRecord = prevRun.record

\* C8: right after the reset that starts a compilation every shared register
\* has its initial value, whatever the compilation before left behind.
C8_RegistersReset ==
    phase = "reset" => Registers = InitialRegisters

\* a compilation starts after one that aborted inside an if block with a
\* function, a tag, an exception, a global, a string page and data in place
C8_Witness ==
    /\ phase = "reset"
    /\ left.aborted
    /\ RegisterNames \ {"hasArray"} \subseteq left.dirty
\* the code that pushes the undefined payload and the type tag undefined
UndefinedPair == Number(0, valtypeBinary) \o Number(TYPES.undefined, I32)

\* C11: compiling a program with an empty body gives a function table of exactly
\* one function, named main and flagged export, whose declared returns are the
\* pair (valtype, i32) and whose body returns the undefined payload with the type
\* tag undefined.
C11_EmptyProgramMain ==
    (phase = "done" /\ programIn = Program(<<>>)) =>
        /\ Len(funcs) = 1
        /\ funcs[1].name = "main"
        /\ funcs[1].export
        /\ funcs[1].returns = <<valtypeBinary, I32>>
        /\ funcs[1].wasm \in {UndefinedPair, UndefinedPair \o <<I("return", 0)>>}
(***************************************************************************)
(* SpecExpr: compilations of programs that declare names and lower         *)
(* expressions on them                                                     *)
(***************************************************************************)
\* new Array(), new Array(n), new Array(4294967296), new Array(1e999),
\* new Array(-1)
ArrayArguments ==
    {<<>>, <<NumLit(0)>>, <<NumLit(2)>>, <<WideLit(65536, 0)>>, <<InfLit>>,
     <<UnaryExpression("-", NumLit(1))>>}
ArrayStatements ==
    {ExpressionStatement(NewArray(a)) : a \in ArrayArguments}
    \cup {VariableDeclaration("a", NewArray(a)) : a \in ArrayArguments}

\* nothing declared, let x = 1, or let a = 1 at the top level
Declarations == {<<>>, <<VariableDeclaration("x", NumLit(1))>>, <<VariableDeclaration("a", NumLit(1))>>}
\* no parameter, x, or a
Parameters == {<<>>, <<"x">>, <<"a">>}
\* delete N for a plain name and for names under the sentinel
Delete(name) == UnaryExpression("delete", Ident(name))
DeleteNames == {"x", "u", "__a_b", "__q_b"}
\* decls; delete N        and        function f(params) { return delete N }
DeletePrograms ==
    {Program(d \o <<ExpressionStatement(Delete(n))>>) : d \in Declarations, n \in DeleteNames}
    \cup {Program(<<FunctionDeclaration("f", ps, <<ReturnStatement(Delete(n))>>)>>) :
             ps \in Parameters, n \in DeleteNames}

\* names under the sentinel that nothing declares: the parents are a, q and ""
ReadNames == {"__a_b", "__q_b", "__x"}
\* decls; N        and        function f(params) { return N }
ReadPrograms ==
    {Program(d \o <<ExpressionStatement(Ident(n))>>) : d \in Declarations, n \in ReadNames}
    \cup {Program(<<FunctionDeclaration("f", ps, <<ReturnStatement(Ident(n))>>)>>) :
             ps \in Parameters, n \in ReadNames}

\* x and globalThis.x as the rewriter spells it
ResolveNames == {"x", "__globalThis_x"}
\* x bound as a global, as a local (a parameter), or as both
Bindings ==
    {[decls |-> <<VariableDeclaration("x", NumLit(1))>>, params |-> <<>>],
     [decls |-> <<>>, params |-> <<"x">>],
     [decls |-> <<VariableDeclaration("x", NumLit(1))>>, params |-> <<"x">>]}
\* decls; function r(params) { return N }  function w(params) { N = 2 }
\* function u(params) { N++ }
ResolvePrograms ==
    {Program(b.decls \o
             <<FunctionDeclaration("r", b.params, <<ReturnStatement(Ident(n))>>),
               FunctionDeclaration("w", b.params,
                  <<ExpressionStatement(AssignmentExpression("=", Ident(n), NumLit(2)))>>),
               FunctionDeclaration("u", b.params,
                  <<ExpressionStatement(UpdateExpression("++", FALSE, Ident(n)))>>)>>) :
        b \in Bindings, n \in ResolveNames}

\* x = 2, x op= 2, x[0] = 2, x[0] op= 2, x.length = 2 and x = () => 2
AssignOperators == {"=", "+=", "-=", "*=", "/=", "||=", "&&=", "??="}
Assignments ==
    {AssignmentExpression(o, Ident("x"), NumLit(2)) : o \in AssignOperators}
    \cup {AssignmentExpression(o, Member(Ident("x"), NumLit(0), TRUE, FALSE), NumLit(2)) :
             o \in AssignOperators}
    \cup {AssignmentExpression("=", Member(Ident("x"), Ident("length"), FALSE, FALSE), NumLit(2)),
          AssignmentExpression("=", Ident("x"), ArrowFunctionExpression(NumLit(2)))}
\* let x = 1; A        let x = new Array(2); A        function f(x) { return A }
\* let x = 1; let y = A
AssignPrograms ==
    {Program(<<VariableDeclaration("x", NumLit(1)), ExpressionStatement(a)>>) : a \in Assignments}
    \cup {Program(<<VariableDeclaration("x", NewArray(<<NumLit(2)>>)), ExpressionStatement(a)>>) :
             a \in Assignments}
    \cup {Program(<<FunctionDeclaration("f", <<"x">>, <<ReturnStatement(a)>>)>>) :
             a \in Assignments}
    \cup {Program(<<VariableDeclaration("x", NumLit(1)), VariableDeclaration("y", a)>>) :
             a \in Assignments}

ExprPrograms ==
    {Program(<<s>>) : s \in ArrayStatements} \cup DeletePrograms \cup ReadPrograms
    \cup ResolvePrograms \cup AssignPrograms

NextExpr ==
    \/ \E p \in ExprPrograms : StartCompile(p)
    \/ Lower

SpecExpr == Init /\ [][NextExpr]_vars

\* the function main of a finished compilation
Main == funcs[Len(funcs)]
\* the exceptions records that the throw instructions of the wasm name
ThrownRecords(wasm) ==
    {exceptions[wasm[k - 1].imm + 1] :
        k \in {j \in 2..Len(wasm) : wasm[j].op = "throw" /\ wasm[j - 1].op = "i32_const"}}
\* the argument is written as a length that is negative, not finite, or above
\* 4294967295
WritesInvalidLength(args) ==
    /\ args # <<>>
    /\ \/ args[1].type = "Literal" /\ "infinite" \in DOMAIN args[1]
       \/ args[1].type = "Literal" /\ "high" \in DOMAIN args[1] /\ args[1].high > 65535
       \/ args[1].type = "UnaryExpression" /\ args[1].operator = "-"
            /\ args[1].argument.type = "Literal" /\ args[1].argument.value > 0
\* the new Array(...) of a statement, if it is one
NewArrayOf(stmt) ==
    IF stmt.type = "ExpressionStatement" THEN stmt.expression ELSE stmt.declarations[1].init

\* C12: lowering new Array(n) with an argument that denotes a negative, a
\* non-finite or a too large length (a plain literal or a unary minus alike)
\* emits a throw whose exceptions record has the constructor RangeError.
C12_InvalidLengthRangeError ==
    (phase = "done" /\ programIn.body.body \in {<<s>> : s \in ArrayStatements}
       /\ WritesInvalidLength(NewArrayOf(programIn.body.body[1]).arguments)) =>
        \E e \in ThrownRecords(Main.wasm) : e.constructor = "RangeError"
\* the last statement of the program, and the expression it holds (a function
\* declaration stands for the return statement that is its body)
RECURSIVE ExpressionOf(_)
ExpressionOf(stmt) ==
    IF stmt.type = "ExpressionStatement" THEN stmt.expression
    ELSE IF stmt.type = "ReturnStatement" THEN stmt.argument
    ELSE IF stmt.type = "FunctionDeclaration" THEN ExpressionOf(stmt.body.body[1])
    ELSE stmt
LastExpression == ExpressionOf(programIn.body.body[Len(programIn.body.body)])
\* the function that holds that expression: the first of the table, which is f
\* when the program declares f and main when it does not
Holder == funcs[1]
\* the last payload constant the wasm pushes
LastConstant(wasm) ==
    wasm[CHOOSE k \in 1..Len(wasm) :
            wasm[k].op = "f64_const" /\ \A j \in (k + 1)..Len(wasm) : wasm[j].op # "f64_const"].imm
Declared(name) == name \in DOMAIN Holder.locals \cup DOMAIN globals
Bound(name) ==
    Declared(name) \/ name \in DOMAIN funcIndex \cup InternalConstrNames \cup {"undefined"}

\* C13: delete x lowers to the constant true when no local, global, built-in or
\* function is named x, and to the constant false when x is a declared local or
\* global.
C13_DeleteConstant ==
    (phase = "done" /\ programIn \in DeletePrograms) =>
        /\ ~Bound(LastExpression.argument.name) => LastConstant(Holder.wasm) = 1
        /\ Declared(LastExpression.argument.name) => LastConstant(Holder.wasm) = 0
(***************************************************************************)
(* SpecCalls: compilations of programs of functions that throw and call    *)
(* one another                                                             *)
(***************************************************************************)
\* throw "s"
ThrowText == ThrowStatement(StringLiteral("s", <<115>>))
\* name(1, ..., 1) with n arguments, as a statement
CallStatement(name, n) == ExpressionStatement(Call(Ident(name), [i \in 1..n |-> NumLit(1)]))

\* f throws, calls itself or does nothing; g may call f, h may call g or f
ChainBodies ==
    [f |-> {<<>>, <<ThrowError>>, <<ThrowText>>, <<CallStatement("f", 0)>>},
     g |-> {<<>>, <<CallStatement("f", 0)>>, <<CallStatement("f", 0), ThrowError>>,
            <<CallStatement("g", 0)>>},
     h |-> {<<>>, <<CallStatement("g", 0)>>, <<CallStatement("f", 0)>>}]
\* the declarations of f, of f and g, or of f, g and h
ChainDeclarations ==
    {<<FunctionDeclaration("f", <<>>, bf)>> : bf \in ChainBodies.f}
    \cup {<<FunctionDeclaration("f", <<>>, bf), FunctionDeclaration("g", <<>>, bg)>> :
             bf \in ChainBodies.f, bg \in ChainBodies.g}
    \cup {<<FunctionDeclaration("f", <<>>, bf), FunctionDeclaration("g", <<>>, bg),
            FunctionDeclaration("h", <<>>, bh)>> :
             bf \in ChainBodies.f, bg \in ChainBodies.g, bh \in ChainBodies.h}
\* the declarations alone, or followed by a call of the last function
ThrowChainPrograms ==
    {Program(d) : d \in ChainDeclarations}
    \cup {Program(d \o <<CallStatement(d[Len(d)].id.name, 0)>>) : d \in ChainDeclarations}

\* /a/.test('a')
RegexTest ==
    ExpressionStatement(
        Call([type |-> "MemberExpression",
              object |-> [type |-> "Literal", regex |-> [pattern |-> "a"]],
              property |-> [name |-> "test"]],
             <<StrLit(<<97>>)>>))
\* statements that emit functions: a regex, a built-in, a function with a
\* function declared inside it that includes a built-in, a plain function, an
\* arrow function
EmissionStatements ==
    {RegexTest, CallStatement("isNaN", 1),
     FunctionDeclaration("f", <<>>, <<FunctionDeclaration("g", <<>>, <<>>),
                                      CallStatement("isNaN", 1), CallStatement("g", 0)>>),
     FunctionDeclaration("h", <<>>, <<>>),
     ExpressionStatement(ArrowFunctionExpression(NumLit(0)))}
RECURSIVE ListsOf(_, _)
\* the lists of 1 to n members of S
ListsOf(S, n) ==
    IF n = 0 THEN {}
    ELSE {<<x>> : x \in S} \cup {<<x>> \o l : x \in S, l \in ListsOf(S, n - 1)}
EmissionPrograms == {Program(l) : l \in ListsOf(EmissionStatements, MaxEmissions)}

\* throw new Error("e"), throw "s", throw x, u()
ThrowForms == {ThrowError, ThrowText, ThrowStatement(Ident("x")), CallStatement("u", 0)}
\* throw sites at the top level, after a function that throws or on their own;
\* and one behind a throw new Error(), which stops the compiler
ThrowPrograms ==
    {Program(l) : l \in ListsOf(ThrowForms, MaxThrows)}
    \cup {Program(<<FunctionDeclaration("f", <<>>, <<t>>)>> \o l) :
             t \in ThrowForms, l \in ListsOf(ThrowForms, MaxThrows - 1)}
    \cup {Program(<<t, ThrowStatement(NewArray(<<>>))>>) : t \in ThrowForms}

\* the parameters a, b, ... of a function
ParameterNames == <<"a", "b", "c", "d">>
\* function f(a, ...) { } f(1, ...)      function f(a, ...) { f(1, ...) }
\* isNaN(1, ...)
ArgumentPrograms ==
    {Program(<<FunctionDeclaration("f", SubSeq(ParameterNames, 1, ps), <<>>),
               CallStatement("f", n)>>) : ps \in 0..MaxParams, n \in 0..MaxArgs}
    \cup {Program(<<FunctionDeclaration("f", SubSeq(ParameterNames, 1, ps),
                                        <<CallStatement("f", n)>>)>>) :
             ps \in 0..MaxParams, n \in 0..MaxArgs}
    \cup {Program(<<CallStatement("isNaN", n)>>) : n \in 0..MaxArgs}

\* the names a user gives a function: one of them is the name of the program's
\* own function
FunctionNames == {"f", "main"}
\* bodies that end without a return, with one, and that declare a variable
FunctionBodies ==
    {<<>>, <<ExpressionStatement(NumLit(1))>>, <<ReturnStatement(NumLit(1))>>,
     <<VariableDeclaration("y", NumLit(1))>>,
     <<VariableDeclaration("y", NumLit(1)), ReturnStatement(Ident("y"))>>}
\* top; function N(params) { body }
NamedPrograms ==
    {Program(top \o <<FunctionDeclaration(n, SubSeq(ParameterNames, 1, ps), b)>>) :
        top \in {<<>>, <<VariableDeclaration("z", NumLit(1))>>},
        n \in FunctionNames, ps \in 0..1, b \in FunctionBodies}

CallPrograms ==
    ThrowChainPrograms \cup EmissionPrograms \cup ThrowPrograms \cup ArgumentPrograms
    \cup NamedPrograms

NextCalls ==
    \/ \E p \in CallPrograms : StartCompile(p)
    \/ Lower

SpecCalls == Init /\ [][NextCalls]_vars

HasThrowSite(fn) == \E k \in 1..Len(fn.wasm) : fn.wasm[k].op = "throw"
\* the positions in the table of the functions that function i calls
Callees(i) ==
    {j \in 1..Len(funcs) :
        \E k \in 1..Len(funcs[i].wasm) :
            funcs[i].wasm[k].op = "call" /\ funcs[i].wasm[k].imm = funcs[j].index}
\* the functions reached from those of S along at most n calls
RECURSIVE ReachedFrom(_, _)
ReachedFrom(S, n) ==
    IF n = 0 THEN S ELSE ReachedFrom(S \cup UNION {Callees(i) : i \in S}, n - 1)

\* C14: a function whose body holds a throw site has throws = true, and so has
\* every function whose body calls a function that has throws = true, along
\* every chain of calls.
C14_ThrowsPropagate ==
    \A i \in 1..Len(funcs) :
        /\ HasThrowSite(funcs[i]) => funcs[i].throws
        /\ \A j \in Callees(i) : funcs[j].throws => funcs[i].throws
        /\ \A j \in ReachedFrom({i}, Len(funcs)) : HasThrowSite(funcs[j]) => funcs[i].throws

\* h calls g, g calls f and f throws: g, h and main have no throw site of their
\* own and are marked
C14_Witness ==
    /\ phase = "done"
    /\ Len(funcs) = 4
    /\ HasThrowSite(funcs[1])
    /\ Callees(2) = {1} /\ Callees(3) = {2} /\ Callees(4) = {3}
    /\ \A i \in 2..4 : ~HasThrowSite(funcs[i]) /\ funcs[i].throws
\* C15: the function table is ordered by index, starting at the number of
\* imported functions: the k-th function emitted (a user function, an included
\* built-in or a compiled regex) has the index importedFuncs.length + k.
C15_IndicesInEmissionOrder ==
    /\ \A k \in 1..Len(funcs) : funcs[k].index = importedFuncsLength + (k - 1)
    /\ currentFuncIndex >= importedFuncsLength + Len(funcs)

\* a built-in, a function declared inside another, the function around it, a
\* regex and main are in the table
C15_Witness ==
    /\ phase = "done"
    /\ Len(funcs) = 5
    /\ {funcs[k].name : k \in 1..3} = {"g", "isNaN", "f"}
    /\ funcs[4].name = "regex_test_a"
    /\ funcs[5].name = "main" /\ funcs[5].index = importedFuncsLength + 4

\* the instructions of all functions, in the order of the table
RECURSIVE AllWasm(_)
AllWasm(fs) == IF fs = <<>> THEN <<>> ELSE Head(fs).wasm \o AllWasm(Tail(fs))
\* the positions of the throw instructions
ThrowPositions(wasm) == {k \in 1..Len(wasm) : wasm[k].op = "throw"}
\* the position of the j-th throw instruction
ThrowPosition(wasm, j) ==
    CHOOSE k \in ThrowPositions(wasm) : Cardinality({m \in ThrowPositions(wasm) : m <= k}) = j
\* the statements with a throw site, in the order they are lowered: the body of
\* a function declaration stands for the declaration
RECURSIVE SiteStatements(_)
SiteStatements(stmts) ==
    IF stmts = <<>> THEN <<>>
    ELSE (IF Head(stmts).type = "FunctionDeclaration" THEN Head(stmts).body.body
          ELSE <<Head(stmts)>>) \o SiteStatements(Tail(stmts))
\* the constructor and message of the throw site of a statement
SiteRecord(stmt) ==
    IF stmt.type = "ExpressionStatement"
    THEN [constructor |-> "ReferenceError",
          message |-> stmt.expression.callee.name \o " is not defined"]
    ELSE IF stmt.argument.type = "NewExpression"
         THEN [constructor |-> stmt.argument.callee.name,
               message |-> stmt.argument.arguments[1].value]
    ELSE IF stmt.argument.type = "Literal"
         THEN [constructor |-> null, message |-> stmt.argument.value]
    ELSE [constructor |-> null]
IsPrefix(a, b) == Len(a) <= Len(b) /\ SubSeq(b, 1, Len(a)) = a
\* the exceptions list once the first j statements of the program are lowered
ExceptionsAfter(j) ==
    Compile(InitialRegisters, Program(SubSeq(programIn.body.body, 1, j)), <<"1">>).exceptions

\* C16: the exceptions list only grows while a program is lowered, the k-th throw
\* site pushes k as its operand and exceptions[k] holds that site's constructor
\* and message; at most one tag exists and every throw names it.
C16_ExceptionsIndexed ==
    (phase = "done" /\ programIn \in ThrowPrograms) =>
        LET wasm == AllWasm(funcs)
            sites == SiteStatements(programIn.body.body)
        IN /\ Len(tags) <= 1
           /\ Cardinality(ThrowPositions(wasm)) = Len(sites)
           /\ Len(exceptions) = Len(sites)
           /\ \A j \in 1..Len(sites) :
                 /\ wasm[ThrowPosition(wasm, j) - 1] = I("i32_const", j - 1)
                 /\ wasm[ThrowPosition(wasm, j)].imm = tags[1].idx
                 /\ exceptions[j] = SiteRecord(sites[j])
           /\ \A j \in 1..Len(programIn.body.body) :
                 IsPrefix(ExceptionsAfter(j - 1), ExceptionsAfter(j))
           /\ ExceptionsAfter(Len(programIn.body.body)) = exceptions

\* a function and the top level have thrown an error, a string, a value without
\* a message and a reference error between them
C16_Witness ==
    /\ phase = "done" /\ programIn \in ThrowPrograms
    /\ Len(funcs) = 2 /\ HasThrowSite(funcs[1])
    /\ Len(exceptions) = MaxThrows
    /\ exceptions[1] = [constructor |-> null, message |-> "s"]
    /\ exceptions[2] = [constructor |-> null]
    /\ exceptions[3].constructor = "ReferenceError"

\* the values on the operand stack before instruction k of a function
HeightBefore(fn, k) ==
    LET RECURSIVE Fold(_, _)
        Fold(acc, j) == IF j = k THEN acc
                        ELSE Fold(StackInst(acc, fn.wasm[j], fn, funcs, globals), j + 1)
    IN Len(Fold([stack |-> <<>>, outer |-> <<>>, ok |-> TRUE], 1).stack)
\* the calls of functions of the table: <<caller, position, callee>>
ResolvedCalls ==
    {<<i, k, j>> \in (1..Len(funcs)) \X (1..MaxArgs * 2 + 1) \X (1..Len(funcs)) :
        /\ k <= Len(funcs[i].wasm)
        /\ funcs[i].wasm[k].op = "call"
        /\ funcs[i].wasm[k].imm = funcs[j].index}

\* C18: before every call instruction as many argument groups are pushed as the
\* callee has parameters: a (payload, type) pair for each parameter of a user
\* function, the self-recursive call included, and a payload for each
\* parameter of a built-in.
C18_ArgumentsMatchParameters ==
    (phase = "done" /\ programIn \in ArgumentPrograms) =>
        \A c \in ResolvedCalls : HeightBefore(funcs[c[1]], c[2]) = Len(funcs[c[3]].params)
\* the read lowers to the constant undefined alone: no throw, no record
SilentUndefined ==
    /\ \E k \in 1..Len(Holder.wasm) : Holder.wasm[k] = I("f64_const", 0)
    /\ ThrowPositions(Holder.wasm) = {}
    /\ exceptions = <<>>
    /\ ~Holder.throws
\* the read lowers to a throw of a ReferenceError naming it
ThrowsNotDefined(name) ==
    /\ ThrowPositions(Holder.wasm) # {}
    /\ exceptions # <<>>
    /\ exceptions[Len(exceptions)] =
          [constructor |-> "ReferenceError", message |-> unhackName(name) \o " is not defined"]
ReadsUnbound ==
    /\ phase = "done" /\ programIn \in ReadPrograms
    /\ ~Bound(LastExpression.name)

Addressed(fn, ops) ==
    LET hits == {k \in 1..Len(fn.wasm) : fn.wasm[k].op \in ops}
        first == CHOOSE k \in hits : \A j \in hits : k <= j
    IN IF hits = {} THEN <<"none", 0>>
       ELSE <<IF fn.wasm[first].op \in {"local_get", "local_set"} THEN "local" ELSE "global",
              fn.wasm[first].imm>>
\* the binding of x in a function: its local when it has one, the global if not
BindingOfX(fn) ==
    IF "x" \in DOMAIN fn.locals THEN <<"local", fn.locals["x"].idx>>
    ELSE <<"global", globals["x"].idx>>

\* C20: a read, an assignment and an update of a name bound as a local, as a
\* global or as both address the same binding, the local when there is one;
\* also when the name is spelled __globalThis_x.
C20_SameBinding ==
    (phase = "done" /\ programIn \in ResolvePrograms) =>
        /\ Addressed(funcs[1], {"local_get", "global_get"}) = BindingOfX(funcs[1])
        /\ Addressed(funcs[2], {"local_set", "global_set"}) = BindingOfX(funcs[2])
        /\ Addressed(funcs[3], {"local_get", "global_get"}) = BindingOfX(funcs[3])


\* the assignments the lowering of the program was called on, in order, each
\* with the code returned for it
Assigned == Compile(InitialRegisters, programIn, [k \in 1..(MaxDraws + 1) |-> "1"]).assigned

\* the operands an instruction takes and leaves (WebAssembly)
Takes(inst) ==
    CASE inst.op \in {"f64_const", "i32_const", "local_get", "global_get"} -> 0
      [] inst.op \in {"local_set", "global_set", "drop", "local_tee", "br_if", "throw",
                      "i32_trunc_sat_f64_u", "i32_trunc_sat_f64_s", "f64_convert_i32_u",
                      "f64_convert_i32_s", "i32_eqz", "i32_load", "i32_load16_u", "f64_load"} -> 1
      [] inst.op \in {"f64_add", "f64_sub", "f64_mul", "f64_div", "f64_eq", "i32_add",
                      "i32_mul", "i32_eq", "i32_ne", "i32_store", "i32_store16",
                      "f64_store"} -> 2
Leaves1(inst) ==
    IF inst.op \in {"local_set", "global_set", "drop", "br_if", "throw", "i32_store",
                    "i32_store16", "f64_store"}
    THEN 0 ELSE 1
Arity(inst) == IF inst.t = "void" THEN 0 ELSE 1
\* the height of the operand stack after inst.  frames holds, for each open
\* block, the height at its start, the values it leaves and whether the code
\* around it is dead; ok turns false when an instruction does not find its
\* operands or a block does not end with the values of its type; after a
\* branch or a throw the rest of the block is dead and its height is free.
HeightInst(acc, inst) ==
    LET top == acc.frames[Len(acc.frames)]
        open(h) == [acc EXCEPT !.h = h,
                               !.frames = Append(@, [base |-> h, arity |-> Arity(inst),
                                                     dead |-> acc.dead])]
    IN CASE inst.op \in {"block", "loop", "try"} -> open(acc.h)
         [] inst.op = "if" ->
                [open(acc.h - 1) EXCEPT !.ok = @ /\ (acc.dead \/ acc.h >= 1)]
         [] inst.op \in {"else", "catch_all"} ->
                [acc EXCEPT !.h = top.base, !.dead = top.dead,
                            !.ok = @ /\ (acc.dead \/ acc.h = top.base + top.arity)]
         [] inst.op = "end" ->
                [acc EXCEPT !.h = top.base + top.arity, !.dead = top.dead,
                            !.frames = SubSeq(@, 1, Len(@) - 1),
                            !.ok = @ /\ (acc.dead \/ acc.h = top.base + top.arity)]
         [] inst.op \in {"br", "return", "unreachable"} -> [acc EXCEPT !.dead = TRUE]
         [] inst.op = "throw" ->
                [acc EXCEPT !.dead = TRUE, !.ok = @ /\ (acc.dead \/ acc.h >= 1)]
         [] OTHER ->
                [acc EXCEPT !.h = @ - Takes(inst) + Leaves1(inst),
                            !.ok = @ /\ (acc.dead \/ acc.h >= Takes(inst))]
RECURSIVE HeightFrom(_, _)
HeightFrom(acc, wasm) ==
    IF wasm = <<>> THEN acc
    ELSE The({HeightFrom(a, Tail(wasm)) : a \in {HeightInst(acc, Head(wasm))}})
\* code that leaves exactly n values more than it found, wherever it ends
LeavesValues(wasm, n) ==
    LET end == HeightFrom([h |-> 0, frames |-> <<>>, ok |-> TRUE, dead |-> FALSE], wasm)
    IN end.ok /\ end.frames = <<>> /\ (end.dead \/ end.h = n)

\* C25: the code lowered for an assignment of any form (=, an arithmetic or a
\* logical compound operator, on a name or on arr[i], and .length = v) leaves
\* exactly one value, the payload assigned, on the operand stack.
C25_AssignLeavesOneValue ==
    (phase = "done" /\ programIn \in AssignPrograms) =>
        \A k \in 1..Len(Assigned) : LeavesValues(Assigned[k].out, 1)

(***************************************************************************)
(* Loops: break and continue under nested statements                       *)
(***************************************************************************)
RECURSIVE Nestings(_)
\* a break or a continue under at most n of: if, block, try block, catch body
Nestings(n) ==
    IF n = 0 THEN {BreakStatement, ContinueStatement}
    ELSE Nestings(n - 1)
         \cup {IfStatement(NumLit(1), s) : s \in Nestings(n - 1)}
         \cup {BlockStatement(<<s>>) : s \in Nestings(n - 1)}
         \cup {TryStatement(BlockStatement(<<s>>), BlockStatement(<<>>)) : s \in Nestings(n - 1)}
         \cup {TryStatement(BlockStatement(<<>>), BlockStatement(<<s>>)) : s \in Nestings(n - 1)}
\* while (1) { s }      for (let i = 0; i; i++) { s }
LoopsAround(S) ==
    {WhileStatement(NumLit(1), BlockStatement(<<s>>)) : s \in S}
    \cup {ForStatement(VariableDeclaration("i", NumLit(0)), Ident("i"),
                       UpdateExpression("++", FALSE, Ident("i")), BlockStatement(<<s>>)) : s \in S}
\* a loop around the jump, and a loop around a loop around it
LoopPrograms ==
    {Program(<<l>>) : l \in LoopsAround(Nestings(MaxNest))}
    \cup {Program(<<l>>) : l \in LoopsAround(LoopsAround(Nestings(MaxNest - 1)))}

\* statements of every kind that keeps the depth stack, around the statement s
TryMark == ExpressionStatement(NumLit(3))
CatchMark == ExpressionStatement(NumLit(4))
StatementsAround(S) ==
    {IfStatement(NumLit(1), BlockStatement(<<s>>)) : s \in S}
    \cup {IfElseStatement(NumLit(1), BlockStatement(<<s>>), BlockStatement(<<s, s>>)) : s \in S}
    \cup LoopsAround(S)
    \cup {ForOfStatement("x", StrLit(<<97>>), BlockStatement(<<s>>)) : s \in S}
    \cup {ForOfStatement("x", Ident("a"), BlockStatement(<<s>>)) : s \in S}
    \cup {TryOnlyStatement(BlockStatement(<<TryMark, s>>)) : s \in S}
    \cup {TryStatement(BlockStatement(<<TryMark, s>>), BlockStatement(<<CatchMark, s>>)) : s \in S}
    \cup {ExpressionStatement(ConditionalExpression(NumLit(1), NumLit(2), NumLit(3)))}
\* a statement in the body of a try, of an if, and a try in the body of a for-of
NestedStatements ==
    {TryStatement(BlockStatement(<<TryMark, s>>), BlockStatement(<<CatchMark>>)) :
        s \in StatementsAround({ExpressionStatement(NumLit(1))})}
    \cup {IfStatement(NumLit(1), BlockStatement(<<s>>)) :
             s \in {k \in StatementsAround({ExpressionStatement(NumLit(1))}) :
                      k.type # "ForOfStatement"}}
    \cup {ForOfStatement("x", StrLit(<<97>>),
             BlockStatement(<<TryStatement(BlockStatement(<<TryMark>>),
                                           BlockStatement(<<CatchMark>>))>>))}
DepthStatements ==
    StatementsAround({ExpressionStatement(NumLit(1)), BreakStatement}) \cup NestedStatements
\* let a = 1; { } s { }      and the same in the body of a while
StatementPrograms ==
    {Program(<<VariableDeclaration("a", NumLit(1)), BlockStatement(<<>>), s,
               BlockStatement(<<>>)>>) : s \in DepthStatements}
    \cup {Program(<<VariableDeclaration("a", NumLit(1)),
                    WhileStatement(NumLit(1),
                        BlockStatement(<<BlockStatement(<<>>), s, BlockStatement(<<>>)>>))>>) :
             s \in StatementsAround({ExpressionStatement(NumLit(1)), BreakStatement})}

NextLoops ==
    \/ \E p \in LoopPrograms \cup StatementPrograms : StartCompile(p)
    \/ Lower

SpecLoops == Init /\ [][NextLoops]_vars

\* the break and continue statements of a statement, in the order they are lowered
RECURSIVE JumpsOf(_)
JumpsOf(stmt) ==
    CASE stmt.type \in {"BreakStatement", "ContinueStatement"} -> <<stmt.type>>
      [] stmt.type = "BlockStatement" ->
            IF stmt.body = <<>> THEN <<>>
            ELSE JumpsOf(Head(stmt.body)) \o JumpsOf(BlockStatement(Tail(stmt.body)))
      [] stmt.type = "IfStatement" -> JumpsOf(stmt.consequent)
      [] stmt.type \in {"WhileStatement", "ForStatement"} -> JumpsOf(stmt.body)
      [] stmt.type = "TryStatement" -> JumpsOf(stmt.block) \o JumpsOf(stmt.handler.body)
      [] OTHER -> <<>>
\* the positions of the blocks open at instruction k, the innermost first
Openers(wasm, k) ==
    LET RECURSIVE Fold(_, _)
        Fold(acc, j) ==
            IF j = k THEN acc
            ELSE Fold(IF wasm[j].op \in {"if", "block", "loop", "try"} THEN <<j>> \o acc
                      ELSE IF wasm[j].op = "end" THEN Tail(acc) ELSE acc, j + 1)
    IN Fold(<<>>, 1)
\* the branch a loop ends its body with: the last instruction of the if that is
\* directly inside a loop
IsBackEdge(wasm, k) ==
    LET s == Openers(wasm, k)
    IN /\ Len(s) >= 2
       /\ wasm[s[1]].op = "if" /\ wasm[s[2]].op = "loop"
       /\ wasm[k + 1].op = "end"
\* the positions of the branches lowered from break and continue statements
JumpPositions(wasm) == {k \in 1..Len(wasm) : wasm[k].op = "br" /\ ~IsBackEdge(wasm, k)}
JumpPosition(wasm, n) ==
    CHOOSE k \in JumpPositions(wasm) : Cardinality({m \in JumpPositions(wasm) : m <= k}) = n
\* the integer a one-byte signed LEB128 stands for
Signed(byte) == IF byte >= 64 THEN byte - 128 ELSE byte
\* where the nearest loop is among the blocks open at an instruction
NearestLoop(wasm, s) == CHOOSE j \in 1..Len(s) :
    wasm[s[j]].op = "loop" /\ \A i \in 1..(j - 1) : wasm[s[i]].op # "loop"
\* a branch to the if directly inside the nearest loop: control passes to the
\* end of the loop
LeavesLoop(wasm, k) ==
    LET s == Openers(wasm, k)
        d == Signed(wasm[k].imm)
    IN d >= 0 /\ d < Len(s) /\ d + 1 = NearestLoop(wasm, s) - 1
\* a branch to the nearest loop itself or, when the body is in a block that an
\* update follows, to that block
NextIteration(wasm, k) ==
    LET s == Openers(wasm, k)
        d == Signed(wasm[k].imm)
        j == NearestLoop(wasm, s)
    IN /\ d >= 0 /\ d < Len(s)
       /\ IF j >= 3 /\ wasm[s[j - 2]].op = "block" THEN d + 1 = j - 2 ELSE d + 1 = j

\* C17: every break and continue in the body of a while or for loop, under any
\* nesting of if, try, catch and block, branches by a non-negative depth; the
\* break leaves the nearest loop, the continue goes on to that loop's next
\* iteration, by a depth one less than a break at the same place.
C17_JumpsReachTheirLoop ==
    (phase = "done" /\ programIn \in LoopPrograms) =>
        LET wasm == funcs[Len(funcs)].wasm
            jumps == JumpsOf(programIn.body)
        IN /\ Cardinality(JumpPositions(wasm)) = Len(jumps)
           /\ \A n \in 1..Len(jumps) :
                 LET k == JumpPosition(wasm, n)
                     s == Openers(wasm, k)
                 IN /\ Signed(wasm[k].imm) >= 0
                    /\ jumps[n] = "BreakStatement" => LeavesLoop(wasm, k)
                    /\ jumps[n] = "ContinueStatement" =>
                          /\ NextIteration(wasm, k)
                          /\ Signed(wasm[k].imm) = (NearestLoop(wasm, s) - 2) - 1

\* the blocks the lowering of the program entered, in order, each with the depth
\* stack at its entry
Entered == Compile(InitialRegisters, programIn, [k \in 1..(MaxDraws + 1) |-> "1"]).entered
StartsWith1(block, mark) == block.body # <<>> /\ block.body[1] = mark
Top(d) == IF d = <<>> THEN "none" ELSE d[Len(d)]

\* C29: the depth stack after the lowering of a statement of any kind (if,
\* conditional, for, while, for-of, try with or without catch) is the depth
\* stack before it: the empty blocks before and after the statement are entered
\* with the same stack, and the stack is empty after the program; the body of a
\* try is entered with try on top, its handler with catch on top.
C29_DepthBalanced ==
    (phase = "done" /\ programIn \in StatementPrograms) =>
        /\ depth = <<>>
        /\ \A i, j \in 1..Len(Entered) :
              (Entered[i].block.body = <<>> /\ Entered[j].block.body = <<>>) =>
                  Entered[i].depth = Entered[j].depth
        /\ \A i \in 1..Len(Entered) :
              /\ StartsWith1(Entered[i].block, TryMark) => Top(Entered[i].depth) = "try"
              /\ StartsWith1(Entered[i].block, CatchMark) => Top(Entered[i].depth) = "catch"
\* a try with a handler in the body of a while: both blocks of the try and the
\* two empty blocks around it were entered
C29_Witness ==
    /\ phase = "done" /\ programIn \in StatementPrograms
    /\ Len(programIn.body.body) = 2
    /\ programIn.body.body[2].body.body[2].type = "TryStatement"
    /\ "handler" \in DOMAIN programIn.body.body[2].body.body[2]
    /\ \E i, j \in 1..Len(Entered) :
          /\ StartsWith1(Entered[i].block, TryMark) /\ Entered[i].depth = <<"while", "if", "try">>
          /\ StartsWith1(Entered[j].block, CatchMark)
          /\ Entered[j].depth = <<"while", "if", "catch">>
    /\ Cardinality({i \in 1..Len(Entered) : Entered[i].block.body = <<>>}) = 2

(***************************************************************************)
(* Functions declared by the program, whatever their name                  *)
(***************************************************************************)
\* the user-declared functions of the table: all but the last, the program's
UserFunctions == {funcs[i] : i \in 1..(Len(funcs) - 1)}
\* the functions that were in the table when a function was finalized
Before(fn) == SubSeq(funcs, 1, CHOOSE i \in 1..Len(funcs) : funcs[i] = fn)
EndsWithReturn(wasm) == wasm # <<>> /\ wasm[Len(wasm)].op = "return"
\* the last three instructions are the implicit return of undefined
EndsWithUndefinedReturn(wasm) ==
    /\ Len(wasm) >= 3
    /\ SubSeq(wasm, Len(wasm) - 2, Len(wasm))
         = Number(0, valtypeBinary) \o Number(TYPES.undefined, I32) \o <<I("return", 0)>>

\* C23: no user-declared function, whatever its name, is in the table with a
\* body that neither ends in a return nor leaves a value: such a body got the
\* implicit return of undefined with the type tag undefined.
C23_ImplicitReturnAdded ==
    (phase = "done" /\ programIn \in NamedPrograms) =>
        \A fn \in UserFunctions :
            \/ EndsWithReturn(fn.wasm)
            \/ countLeftover(fn.wasm, Before(fn)) # 0

\* the names declared in the statements of a list
DeclaredIn(stmts) ==
    {stmts[k].declarations[1].id.name :
        k \in {j \in 1..Len(stmts) : stmts[j].type = "VariableDeclaration"}}
\* the function declaration of the program
DeclarationOfProgram == programIn.body.body[Len(programIn.body.body)]

\* C27: the globals are the variables declared at the top level; a variable
\* declared in the body of a user function, whatever the function's name, is a
\* local of that function and no global.
C27_GlobalIffTopLevel ==
    (phase = "done" /\ programIn \in NamedPrograms) =>
        /\ \A n \in DeclaredIn(programIn.body.body) : n \in DOMAIN globals
        /\ \A n \in DeclaredIn(DeclarationOfProgram.body.body) : n \notin DOMAIN globals
        /\ DeclaredIn(DeclarationOfProgram.body.body) \subseteq DOMAIN funcs[1].locals
(***************************************************************************)
(* A machine that runs emitted code: structured control flow, locals and a *)
(* byte memory                                                             *)
(***************************************************************************)
\* the end that closes the block opened at position k
MatchingEnd(code, k) ==
    LET RECURSIVE Scan(_, _)
        Scan(j, open) ==
            IF code[j].op = "end"
            THEN IF open = 0 THEN j ELSE Scan(j + 1, open - 1)
            ELSE Scan(j + 1, IF code[j].op \in {"if", "block", "loop", "try"}
                             THEN open + 1 ELSE open)
    IN Scan(k + 1, 0)
\* the else of the if opened at position k, 0 when it has none
ElseOf(code, k) ==
    LET own == {j \in (k + 1)..MatchingEnd(code, k) :
                   code[j].op = "else" /\ Openers(code, j)[1] = k}
    IN IF own = {} THEN 0 ELSE CHOOSE j \in own : TRUE
\* the label a block, loop or if enters: where a branch to it continues, the
\* height of the stack below it and how many values a branch carries
Label(code, k, stack) ==
    [loop |-> code[k].op = "loop",
     cont |-> IF code[k].op = "loop" THEN k + 1 ELSE MatchingEnd(code, k) + 1,
     end |-> MatchingEnd(code, k),
     height |-> Len(stack),
     arity |-> IF code[k].op = "loop" \/ code[k].t = "void" THEN 0 ELSE 1]
\* br n: unwind to the n-th label from the innermost, which is kept when it is
\* a loop
Branch(m, n) ==
    LET label == m.labels[n + 1]
        carried == SubSeq(m.stack, 1, label.arity)
        below == SubSeq(m.stack, Len(m.stack) - label.height + 1, Len(m.stack))
    IN [m EXCEPT !.pc = label.cont,
                 !.stack = carried \o below,
                 !.labels = SubSeq(@, IF label.loop THEN n + 1 ELSE n + 2, Len(@)),
                 !.iterations = IF label.loop THEN @ + 1 ELSE @]
\* the bytes of memory are numbered from 0; a load of n bytes is little-endian
InMemory(mem, addr, n) == addr >= 0 /\ addr + n <= Len(mem)
Load(mem, addr, n) ==
    LET RECURSIVE Sum(_)
        Sum(j) == IF j = n THEN 0 ELSE mem[addr + j + 1] + 256 * Sum(j + 1)
    IN Sum(0)
Trap(m) == [m EXCEPT !.status = "trapped"]
BinaryValue(op, a, b) ==
    CASE op = "i32_ne" -> IF a # b THEN 1 ELSE 0
      [] op = "i32_eq" -> IF a = b THEN 1 ELSE 0
      [] op = "i32_add" -> a + b
      [] op = "i32_sub" -> a - b
      [] op = "i32_mul" -> a * b
\* one instruction of the code at pc
Step(m) ==
    LET inst == m.code[m.pc]
        top == m.stack[1]
        rest == Tail(m.stack)
        next == [m EXCEPT !.pc = @ + 1]
    IN CASE inst.op \in {"block", "loop"} ->
               [next EXCEPT !.labels = <<Label(m.code, m.pc, m.stack)>> \o @,
                            !.iterations = IF inst.op = "loop" THEN @ + 1 ELSE @]
         [] inst.op = "if" ->
               IF ~IsZero(top)
               THEN [next EXCEPT !.stack = rest,
                                 !.labels = <<Label(m.code, m.pc, rest)>> \o @]
               ELSE IF ElseOf(m.code, m.pc) # 0
                    THEN [m EXCEPT !.pc = ElseOf(m.code, m.pc) + 1, !.stack = rest,
                                   !.labels = <<Label(m.code, m.pc, rest)>> \o @]
               ELSE [m EXCEPT !.pc = MatchingEnd(m.code, m.pc) + 1, !.stack = rest]
         [] inst.op = "else" ->
               [m EXCEPT !.pc = m.labels[1].end + 1, !.labels = Tail(@)]
         [] inst.op = "end" -> [next EXCEPT !.labels = Tail(@)]
         [] inst.op = "br" -> Branch(m, inst.imm)
         [] inst.op = "br_if" ->
               IF ~IsZero(top) THEN Branch([m EXCEPT !.stack = rest], inst.imm)
               ELSE [next EXCEPT !.stack = rest]
         [] inst.op = "br_table" ->
               Branch([m EXCEPT !.stack = rest],
                      IF top.v >= 0 /\ top.v < Len(inst.imm.table)
                      THEN inst.imm.table[top.v + 1] ELSE inst.imm.default)
         [] inst.op \in {"i32_load", "i32_load16_u"} ->
               LET n == IF inst.op = "i32_load" THEN 4 ELSE 2
                   addr == top.v + inst.imm
               IN IF ~InMemory(m.mem, addr, n) THEN Trap(m)
                  ELSE [next EXCEPT !.stack = Push(rest, IntVal("i32", Load(m.mem, addr, n))),
                                    !.loads = IF n = 2 THEN Append(@, addr) ELSE @]
         [] inst.op \in {"i32_ne", "i32_eq", "i32_add", "i32_sub", "i32_mul"} ->
               [next EXCEPT !.stack = Push(Tail(rest),
                                           IntVal("i32", BinaryValue(inst.op, rest[1].v, top.v)))]
         [] inst.op = "local_tee" -> [next EXCEPT !.loc = Put(@, inst.imm, top)]
         [] OTHER ->
               LET r == ExecInst(inst, [stack |-> m.stack, loc |-> m.loc], <<>>)
               IN [next EXCEPT !.stack = r.stack, !.loc = r.loc]
\* a machine about to run code on an input
Loaded(input, code, loc, mem) ==
    [status |-> "running", input |-> input, code |-> code, pc |-> 1, stack |-> <<>>,
     labels |-> <<>>, loc |-> loc, mem |-> mem, iterations |-> 0, loads |-> <<>>]

Execute ==
    /\ machine.status = "running"
    /\ machine.pc <= Len(machine.code)
    /\ machine' = Step(machine)
    /\ UNCHANGED <<scopeVars, pageVars, hackVars, truthyVars, genVars>>

\* the end of the code: what is on the stack is the result
Return ==
    /\ machine.status = "running"
    /\ machine.pc > Len(machine.code)
    /\ machine' = [machine EXCEPT !.status = "returned"]
    /\ UNCHANGED <<scopeVars, pageVars, hackVars, truthyVars, genVars>>

(***************************************************************************)
(* compareStrings                                                          *)
(***************************************************************************)
\* the six temporaries of compareStrings, requested in the order of lines
\* 540-546 in a scope with locals locs and localInd ind
CompareNames ==
    <<"compare_left_pointer", "compare_left_length", "compare_right_pointer",
      "compare_right_length", "compare_index", "compare_index_end">>
CompareTmp(locs, ind) ==
    LET RECURSIVE Request(_, _, _, _)
        Request(k, l, i, acc) ==
            IF k > Len(CompareNames) THEN acc
            ELSE Request(k + 1, LocalTmpLocals(l, i, CompareNames[k], I32),
                         LocalTmpInd(l, i, CompareNames[k]),
                         Append(acc, LocalTmpIdx(l, i, CompareNames[k])))
    IN Request(1, locs, ind, <<>>)
\* compareStrings, lines 548-638; ValtypeSize.i16 is 2 and ValtypeSize.i32 is 4
compareStrings(tmp, lhs, rhs) ==
    LET leftPointer == tmp[1]   leftLength == tmp[2]   rightPointer == tmp[3]
        rightLength == tmp[4]   index == tmp[5]        indexEnd == tmp[6]
    IN lhs \o <<OpI32ToU(valtypeBinary), I("local_tee", leftPointer)>>
       \o rhs \o <<OpI32ToU(valtypeBinary), I("local_tee", rightPointer)>>
       \o <<I("i32_ne", 0), B("if", "i32"),
            I("local_get", leftPointer), I("i32_load", 0), I("local_tee", leftLength),
            I("local_get", rightPointer), I("i32_load", 0), I("local_tee", rightLength),
            I("i32_ne", 0), B("if", "void")>> \o Number(0, I32) \o <<I("br", 1), I("end", 0)>>
       \o Number(0, I32) \o <<I("local_set", index),
            I("local_get", leftLength)>> \o Number(2, I32) \o <<I("i32_mul", 0),
            I("local_set", indexEnd),
            B("loop", "void"),
            I("local_get", index), I("local_get", leftPointer), I("i32_add", 0),
            I("i32_load16_u", 4),
            I("local_get", index), I("local_get", rightPointer), I("i32_add", 0),
            I("i32_load16_u", 4),
            I("i32_ne", 0), B("if", "void")>> \o Number(0, I32) \o <<I("br", 2), I("end", 0),
            I("local_get", index)>> \o Number(2, I32) \o <<I("i32_add", 0),
            I("local_tee", index),
            I("local_get", indexEnd), I("i32_ne", 0), I("br_if", 0), I("end", 0)>>
       \o Number(1, I32) \o <<I("else", 0)>> \o Number(1, I32) \o <<I("end", 0)>>

\* 16-bit units: NUL, a, and a unit above 255
Units == {0, 97, 353}
\* what a page holds: a length and the units after it, of which those at or
\* beyond the length are left over from earlier use
PageContents ==
    {[length |-> n, units |-> u] : n \in 0..MaxUnits, u \in [1..MaxUnits -> Units]}
PageBytes == 4 + 2 * MaxUnits
\* the bytes of a page, little-endian
BytesOf(page) ==
    LET RECURSIVE UnitBytes(_)
        UnitBytes(k) == IF k > MaxUnits THEN <<>>
                        ELSE <<page.units[k] % 256, page.units[k] \div 256>> \o UnitBytes(k + 1)
    IN <<page.length, 0, 0, 0>> \o UnitBytes(1)
\* two strings on two pages, compared with each other or one with itself
CompareInputs ==
    {[left |-> l, right |-> r, leftPointer |-> 0, rightPointer |-> p] :
        l \in PageContents, r \in PageContents, p \in {PageBytes}}
    \cup {[left |-> l, right |-> l, leftPointer |-> 0, rightPointer |-> 0] : l \in PageContents}
\* the machine loaded with the compare of the two pointers
CompareMachine(in) ==
    Loaded(in, compareStrings(CompareTmp(EmptyMap, 0), Number(in.leftPointer, valtypeBinary),
                              Number(in.rightPointer, valtypeBinary)),
           EmptyMap, BytesOf(in.left) \o BytesOf(in.right))

InitCompare ==
    /\ ScopeInit /\ PageInit /\ HackInit /\ TruthyInit /\ GenInit
    /\ machine \in {CompareMachine(in) : in \in CompareInputs}

NextCompare == Execute \/ Return

SpecCompare == InitCompare /\ [][NextCompare]_vars

\* the units of a string: those below its length
StringOf(page) == SubSeq(page.units, 1, page.length)
Finished == machine.status \in {"returned", "trapped"}
\* the compare has left exactly this value
Leaves(v) == machine.status = "returned" /\ machine.stack = <<IntVal("i32", v)>>

\* C21: the compare of two string pointers leaves 1 when the pointers are equal
\* or the strings have the same length and the same unit at every index below
\* it, two empty strings included, and leaves 0 otherwise.
C21_CompareDecidesEquality ==
    Finished =>
        Leaves(IF machine.input.leftPointer = machine.input.rightPointer
                  \/ StringOf(machine.input.left) = StringOf(machine.input.right)
               THEN 1 ELSE 0)

\* the index of the unit a load of the loop reads: loads alternate between the
\* left and the right string
UnitIndex(k) ==
    (machine.loads[k]
       - (IF k % 2 = 1 THEN machine.input.leftPointer ELSE machine.input.rightPointer) - 4) \div 2
EqualLengths ==
    /\ machine.input.leftPointer # machine.input.rightPointer
    /\ machine.input.left.length = machine.input.right.length

\* C28: on two strings of the same length the loop of the compare makes at most
\* length passes, none when both are empty, reads no unit at or beyond the
\* length, and the compare ends.
C28_LoopWithinLength ==
    EqualLengths =>
        /\ machine.iterations <= machine.input.left.length
        /\ \A k \in 1..Len(machine.loads) : UnitIndex(k) < machine.input.left.length
        /\ machine.status # "trapped"
(***************************************************************************)
(* typeSwitch: the chain of ifs and the br_table                           *)
(***************************************************************************)
\* the tags of the arms of the tables the generator passes: truthy, falsy,
\* member access and for-of; nullish; member assignment; typeof; a prototype
\* function of strings alone
ArmTags == {{TYPES._array, TYPES.string}, {TYPES.undefined, TYPES.object}, {TYPES._array},
            {TYPES.number, TYPES.boolean, TYPES.string, TYPES.undefined, TYPES.function},
            {TYPES.string}}
\* each arm leaves a constant of its own: 100 + tag, and 99 for the default
ArmTable(keyed) ==
    [arms |-> [k \in keyed |-> Number(100 + k, I32)], default |-> Number(99, I32)]
SwitchInputs ==
    {[tags |-> keyed, tag |-> t, useBrTable |-> f] :
        keyed \in ArmTags, t \in TypeTags, f \in BOOLEAN}
\* the switch on the type tag of the variable x, held in local 1; the next free
\* local is the temporary
SwitchMachine(in) ==
    Loaded(in, typeSwitch(2, <<I("local_get", 1)>>, ArmTable(in.tags), I32, in.useBrTable),
           Put(EmptyMap, 1, IntVal("i32", in.tag)), <<>>)

InitSwitch ==
    /\ ScopeInit /\ PageInit /\ HackInit /\ TruthyInit /\ GenInit
    /\ machine \in {SwitchMachine(in) : in \in SwitchInputs}

NextSwitch == Execute \/ Return

SpecSwitch == InitSwitch /\ [][NextSwitch]_vars

\* the constant of the arm keyed by the tag, or of the default arm
ArmFor(keyed, tag) == IF tag \in keyed THEN 100 + tag ELSE 99

\* C22: for every arm table of the generator and every type tag, the switch
\* emitted with -typeswitch-use-brtable and the chain of ifs both run the arm
\* keyed by the tag when there is one, the arm of tag 0 included, and the
\* default arm when there is none.
C22_SameArm ==
    Finished => Leaves(ArmFor(machine.input.tags, machine.input.tag))
(***************************************************************************)
(* The built-in parseInt (src/compiler/builtins/int.ts)                    *)
(***************************************************************************)
\* the characters a string is drawn from: + - 0 9 a
Chrs == {43, 45, 48, 57, 97}
\* the characters after the length of a string: those of the string, then what
\* the page held before
Cells == [1..(MaxChars + 1) -> Chrs]
\* a string in one of the two encodings: width is the bytes of a character
ParseInputs == {[len |-> l, cells |-> c, width |-> w] : l \in 0..MaxChars, c \in Cells, w \in {1, 2}}
\* f64 values: NaN, and whole numbers with a sign
NaNValue == [nan |-> TRUE, neg |-> FALSE, mag |-> 0]
Whole(k) == [nan |-> FALSE, neg |-> FALSE, mag |-> k]
Negate(v) == [v EXCEPT !.neg = ~v.neg]
\* n *= 10; n += d
TimesTenPlus(v, d) == [v EXCEPT !.mag = v.mag * 10 + d]
\* i32.load8_u(i, 0, 4) and i32.load16_u(i, 0, 4), i counted from inputPtr
LoadChr(in, i) == in.cells[(i \div in.width) + 1]
\* a test that takes 9 for no digit
IsDigitBelowNine(chr) == chr >= 48 /\ chr <= 56
\* lines 30 and 60
IsDigit(chr) == chr >= 48 /\ chr <= 57

\* lines 7-25 and 45-54: the locals, and the check of the start of the string
ParseStart ==
    /\ machine.status = "called"
    /\ LET in == machine.input
           startChr == LoadChr(in, 0)
           afterPlus == IF startChr = 43 THEN in.width ELSE 0
       IN machine' = [machine EXCEPT
              !.status = "loop",
              !.n = NaNValue,
              !.endPtr = in.len * in.width,
              !.negative = (startChr = 45),
              !.i = IF startChr = 45 THEN afterPlus + in.width ELSE afterPlus]
    /\ UNCHANGED <<scopeVars, pageVars, hackVars, truthyVars, genVars>>

\* lines 27-39 and 56-69: one pass of the loop
ParseChr ==
    /\ machine.status = "loop"
    /\ machine.i < machine.endPtr
    /\ LET chr == LoadChr(machine.input, machine.i)
           n == IF machine.n.nan THEN Whole(0) ELSE machine.n
       IN IF IsDigit(chr)
          THEN machine' = [machine EXCEPT
                   !.i = @ + machine.input.width,
                   !.n = TimesTenPlus(n, chr - 48),
                   !.passes = @ + 1]
          ELSE machine' = [machine EXCEPT
                   !.i = @ + machine.input.width,
                   !.passes = @ + 1,
                   !.status = "returned",
                   !.result = IF machine.negative THEN Negate(machine.n) ELSE machine.n]
    /\ UNCHANGED <<scopeVars, pageVars, hackVars, truthyVars, genVars>>

\* lines 41-42 and 71-72: the end of the string
ParseEnd ==
    /\ machine.status = "loop"
    /\ ~(machine.i < machine.endPtr)
    /\ machine' = [machine EXCEPT
           !.status = "returned",
           !.result = IF machine.negative THEN Negate(machine.n) ELSE machine.n]
    /\ UNCHANGED <<scopeVars, pageVars, hackVars, truthyVars, genVars>>

InitParse ==
    /\ ScopeInit /\ PageInit /\ HackInit /\ TruthyInit /\ GenInit
    /\ machine \in {[status |-> "called", input |-> in, n |-> NaNValue, endPtr |-> 0,
                     negative |-> FALSE, i |-> 0, passes |-> 0, result |-> NaNValue] :
                        in \in ParseInputs}

NextParse == ParseStart \/ ParseChr \/ ParseEnd

\* the call runs on: nothing else is scheduled between its steps
SpecParse == InitParse /\ [][NextParse]_vars /\ WF_vars(NextParse)

\* the characters of the input, the same in both encodings
CharsOf(in) == SubSeq(in.cells, 1, in.len)
HasSign(chars) == Len(chars) > 0 /\ chars[1] \in {43, 45}
\* the characters after the optional sign
Unsigned(chars) == IF HasSign(chars) THEN SubSeq(chars, 2, Len(chars)) ELSE chars
\* the number of digits the characters start with
RECURSIVE DigitRun(_)
DigitRun(chars) ==
    IF Len(chars) = 0 \/ ~(chars[1] \in 48..57) THEN 0
    ELSE 1 + DigitRun(Tail(chars))
\* the base 10 value of digits
RECURSIVE Base10(_)
Base10(digits) ==
    IF Len(digits) = 0 THEN 0
    ELSE Base10(SubSeq(digits, 1, Len(digits) - 1)) * 10 + (digits[Len(digits)] - 48)
ValueOfRun(chars) == Base10(SubSeq(Unsigned(chars), 1, DigitRun(Unsigned(chars))))
Returned == machine.status = "returned"
ParsedAsClaimed ==
    LET chars == CharsOf(machine.input)
    IN IF DigitRun(Unsigned(chars)) = 0 THEN machine.result.nan
       ELSE /\ ~machine.result.nan
            /\ machine.result.mag = ValueOfRun(chars)
            /\ machine.result.neg = (chars[1] = 45)

\* C30: parseInt returns for every string in either encoding, after at most
\* one pass per character: NaN when no digit follows the optional sign, else
\* the base 10 value of the digits that follow it, negated exactly when the
\* sign is -; the result depends on the characters alone, so the two encodings
\* agree.
C30_ParseIntValue ==
    /\ [](machine.passes <= machine.input.len)
    /\ [](Returned => ParsedAsClaimed)
    /\ <>Returned
\* a signed number followed by other characters has been parsed in the 16-bit
\* encoding
C30_Witness ==
    /\ Returned /\ machine.input.width = 2 /\ machine.negative
    /\ machine.result = Negate(Whole(9)) /\ machine.input.len = 3
====
